---------------------------- MODULE Spec2Model ----------------------------
(***************************************************************************)
(* A model of MegEngine's tensor operator layer                            *)
(*   imperative/python/megengine/core/tensor/array_method.py               *)
(*   imperative/python/megengine/core/tensor/dtype.py                      *)
(*                                                                         *)
(* Three subsystems, each with its own specification over the same          *)
(* variables:                                                               *)
(*   SpecDispatch, SpecShape : _matmul and the rank-normalization programs  *)
(*   SpecCacheSeq, SpecCacheConc : the lru_cache'd program getters          *)
(*   SpecQuant : the quantized dtype registry and its conversions           *)
(***************************************************************************)
EXTENDS Integers, Sequences, FiniteSets, TLC

VARIABLES
    mm_pc,      \* position of the _matmul call: "ready" | "done"
    mm_in,      \* arguments and global configuration of the _matmul call
    mm_out,     \* what the call did: path taken, strategy, result shape
    cache,      \* the two lru_cache dictionaries, by getter
    builds,     \* how often each getter's body ran, by getter and key
    requested,  \* keys asked for so far, by getter (history)
    th,         \* per thread: position in symbolic*MatrixMul, key, program
    q_pc,       \* position of the quantization scenario
    q_in,       \* inputs of the quantization scenario
    q_dtype,    \* outcome of create_quantized_dtype
    q_arr,      \* outcome of convert_to_<kind>
    q_back,     \* outcome of convert_from_<kind>
    t_pc,       \* position of the tensor-method scenario
    t_self,     \* the value the receiver tensor is bound to
    t_in,       \* the call: method and operands
    t_out,      \* what the call returned or raised
    t_trace     \* primitive invocations and rebindings so far, in order

vars == <<mm_pc, mm_in, mm_out, cache, builds, requested, th,
          q_pc, q_in, q_dtype, q_arr, q_back,
          t_pc, t_self, t_in, t_out, t_trace>>

mmVars == <<mm_pc, mm_in, mm_out>>
cacheVars == <<cache, builds, requested, th>>
quantVars == <<q_pc, q_in, q_dtype, q_arr, q_back>>
tensorVars == <<t_pc, t_self, t_in, t_out, t_trace>>

(***************************************************************************)
(* Bounds                                                                  *)
(***************************************************************************)
MaxRank == 5        \* operand ranks 1..MaxRank
MaxDim == 2         \* extents of a dimension 1..MaxDim
MaxCalls == 3       \* calls of symbolic*MatrixMul in a call sequence
MaxConcCalls == 2   \* calls of symbolic*MatrixMul per concurrent thread
NThreads == 2       \* threads calling the rank-normalizer concurrently
MaxScaleExp == 1    \* scales 2^e for e in -MaxScaleExp..MaxScaleExp
Slack == 1          \* inputs lie within Slack of the ends of a value range
MaxVecLen == 2      \* longest rank-1 tensor whose elements are tracked
MaxElem == 1        \* tracked elements are 0..MaxElem
MaxTRank == 3       \* highest rank of a tensor that is reduced, measured or iterated
MaxAxes == 2        \* longest collection of axes given to a reduction
MaxIters == 2       \* iterations started over one tensor

Max(a, b) == IF a > b THEN a ELSE b
Min(a, b) == IF a < b THEN a ELSE b

(***************************************************************************)
(* Sequences of extents                                                    *)
(***************************************************************************)
RECURSIVE Prod(_)
Prod(s) == IF s = <<>> THEN 1 ELSE Head(s) * Prod(Tail(s))

\* Python's shape[:idx] for idx < 0
SliceHead(shape, idx) == SubSeq(shape, 1, Max(Len(shape) + idx, 0))
\* Python's shape[idx:] for idx < 0
SliceTail(shape, idx) == SubSeq(shape, Max(Len(shape) + idx, 0) + 1, Len(shape))

(***************************************************************************)
(* Tensors are modelled by their shape; a failed primitive yields Failed   *)
(* and every later primitive propagates it.                                *)
(***************************************************************************)
Failed == [ok |-> FALSE, shape |-> <<>>]
T(shape) == [ok |-> TRUE, shape |-> shape]

\* builtin.AddAxis(axis=[a]) : a unit axis inserted at 0-based position a
AddAxis(t, a) ==
    IF ~t.ok \/ a > Len(t.shape) THEN Failed
    ELSE T(SubSeq(t.shape, 1, a) \o <<1>> \o SubSeq(t.shape, a + 1, Len(t.shape)))

\* builtin.RemoveAxis(axis=[a]) : the axis must exist and have extent 1
RemoveAxis(t, a) ==
    IF ~t.ok \/ a < 0 \/ a >= Len(t.shape) THEN Failed
    ELSE IF t.shape[a + 1] # 1 THEN Failed
    ELSE T(SubSeq(t.shape, 1, a) \o SubSeq(t.shape, a + 2, Len(t.shape)))

\* builtin.Reshape : the element count is preserved
Reshape(t, target) ==
    IF ~t.ok THEN Failed
    ELSE IF Prod(t.shape) # Prod(target) THEN Failed
    ELSE T(target)

\* builtin.Broadcast : trailing axes aligned, each equal to the target or 1
Broadcast(t, target) ==
    IF ~t.ok \/ Len(t.shape) > Len(target) THEN Failed
    ELSE LET off == Len(target) - Len(t.shape) IN
         IF \A i \in 1..Len(t.shape) :
                t.shape[i] = target[off + i] \/ t.shape[i] = 1
         THEN T(target) ELSE Failed

\* the trailing two extents of a matrix operand as the primitive reads them
Rows(shape, transpose) ==
    IF transpose THEN shape[Len(shape)] ELSE shape[Len(shape) - 1]
Cols(shape, transpose) ==
    IF transpose THEN shape[Len(shape) - 1] ELSE shape[Len(shape)]

\* builtin.MatrixMul : two rank-2 operands
MatrixMul(a, b, transposeA, transposeB) ==
    IF ~a.ok \/ ~b.ok THEN Failed
    ELSE IF Len(a.shape) # 2 \/ Len(b.shape) # 2 THEN Failed
    ELSE IF Cols(a.shape, transposeA) # Rows(b.shape, transposeB) THEN Failed
    ELSE T(<<Rows(a.shape, transposeA), Cols(b.shape, transposeB)>>)

\* builtin.BatchedMatrixMul : two rank-3 operands with the same batch extent
BatchedMatrixMul(a, b, transposeA, transposeB) ==
    IF ~a.ok \/ ~b.ok THEN Failed
    ELSE IF Len(a.shape) # 3 \/ Len(b.shape) # 3 THEN Failed
    ELSE IF a.shape[1] # b.shape[1] THEN Failed
    ELSE IF Cols(a.shape, transposeA) # Rows(b.shape, transposeB) THEN Failed
    ELSE T(<<a.shape[1], Rows(a.shape, transposeA), Cols(b.shape, transposeB)>>)

(***************************************************************************)
(* extentedMatrixMulOp: the plain rank-normalization program               *)
(***************************************************************************)
\* the program with its promotions and the result before the removals
extentedMatrixMulOpSteps(shape1_in, shape2_in, transpose_a, transpose_b) ==
    LET dim1 == Len(shape1_in)
        dim2 == Len(shape2_in)
        remove_row == dim1 = 1
        remove_col == dim2 = 1
        _dim1 == IF remove_row THEN 2 ELSE dim1
        _dim2 == IF remove_col THEN 2 ELSE dim2
        inp1a == IF remove_row THEN AddAxis(T(shape1_in), 0) ELSE T(shape1_in)
        inp2a == IF remove_col THEN AddAxis(T(shape2_in), 1) ELSE T(shape2_in)
        shape1 == inp1a.shape
        shape2 == inp2a.shape
        inp1b == IF _dim1 > 2
                 THEN Reshape(inp1a, <<Prod(SliceHead(shape1, -1))>> \o SliceTail(shape1, -1))
                 ELSE inp1a
        inp2b == IF _dim2 > 2
                 THEN Reshape(inp2a, <<Prod(SliceHead(shape2, -1))>> \o SliceTail(shape2, -1))
                 ELSE inp2a
        result0 == MatrixMul(inp1b, inp2b, transpose_a, transpose_b)
        result_shape == result0.shape
        result1 == IF _dim1 > 2
                   THEN Reshape(result0, SliceHead(shape1, -1) \o SliceTail(result_shape, -1))
                   ELSE result0
        result2 == IF _dim2 > 2
                   THEN Reshape(result1, SliceHead(shape2, -1) \o SliceTail(result_shape, -1))
                   ELSE result1
        maxdim == IF _dim1 > _dim2 THEN _dim1 ELSE _dim2
        result3 == IF remove_row THEN RemoveAxis(result2, maxdim - 2) ELSE result2
        result4 == IF remove_col THEN RemoveAxis(result3, maxdim - 1) ELSE result3
    IN  [remove_row |-> remove_row, remove_col |-> remove_col, maxdim |-> maxdim,
         promoted |-> result2, result |-> result4]

extentedMatrixMulOp(shape1_in, shape2_in, transpose_a, transpose_b) ==
    extentedMatrixMulOpSteps(shape1_in, shape2_in, transpose_a, transpose_b).result

(***************************************************************************)
(* extentedBatchedMatrixMulOp: the batched rank-normalization program      *)
(***************************************************************************)
\* BatchShape taken from the first operand whatever the ranks
BatchShape_FirstOperand(_dim1, _dim2, shape1, shape2) == SliceHead(shape1, -2)

\* the batch shape handed to Reshape and re-expanded afterwards
BatchShape(_dim1, _dim2, shape1, shape2) ==
    IF _dim1 > _dim2 THEN SliceHead(shape1, -2)
    ELSE IF _dim2 > _dim1 THEN SliceHead(shape2, -2)
    ELSE SliceHead(shape1, -2)

extentedBatchedMatrixMulOpSteps(shape1_in, shape2_in, transpose_a, transpose_b) ==
    LET dim1 == Len(shape1_in)
        dim2 == Len(shape2_in)
        remove_row == dim1 = 1
        remove_col == dim2 = 1
        _dim1 == IF remove_row THEN 2 ELSE dim1
        _dim2 == IF remove_col THEN 2 ELSE dim2
        inp1a == IF remove_row THEN AddAxis(T(shape1_in), 0) ELSE T(shape1_in)
        inp2a == IF remove_col THEN AddAxis(T(shape2_in), 1) ELSE T(shape2_in)
        shape1a == inp1a.shape
        shape2a == inp2a.shape
        maxdim == IF _dim1 > _dim2 THEN _dim1 ELSE _dim2
        \* if _dim1 > _dim2: broadcast inp2 to shape1[:-_dim2] ++ shape2
        shape2 == IF _dim1 > _dim2 THEN SliceHead(shape1a, -_dim2) \o shape2a ELSE shape2a
        inp2b == IF _dim1 > _dim2 THEN Broadcast(inp2a, shape2) ELSE inp2a
        \* if _dim2 > _dim1: broadcast inp1 to shape2[:-_dim1] ++ shape1
        shape1 == IF _dim2 > _dim1 THEN SliceHead(shape2, -_dim1) \o shape1a ELSE shape1a
        inp1b == IF _dim2 > _dim1 THEN Broadcast(inp1a, shape1) ELSE inp1a
        batch_shape == BatchShape(_dim1, _dim2, shape1a, shape2)
        inp1c == IF maxdim > 3
                 THEN Reshape(inp1b, <<Prod(batch_shape)>> \o SliceTail(shape1, -2))
                 ELSE inp1b
        inp2c == IF maxdim > 3
                 THEN Reshape(inp2b, <<Prod(batch_shape)>> \o SliceTail(shape2, -2))
                 ELSE inp2b
        result0 == BatchedMatrixMul(inp1c, inp2c, transpose_a, transpose_b)
        result1 == IF maxdim > 3
                   THEN Reshape(result0, batch_shape \o SliceTail(result0.shape, -2))
                   ELSE result0
        result2 == IF remove_row THEN RemoveAxis(result1, maxdim - 2) ELSE result1
        result3 == IF remove_col THEN RemoveAxis(result2, maxdim - 1) ELSE result2
    IN  [remove_row |-> remove_row, remove_col |-> remove_col, maxdim |-> maxdim,
         promoted |-> result1, result |-> result3]

extentedBatchedMatrixMulOp(shape1_in, shape2_in, transpose_a, transpose_b) ==
    extentedBatchedMatrixMulOpSteps(shape1_in, shape2_in, transpose_a, transpose_b).result

(***************************************************************************)
(* _matmul: strategy assembly and dispatch                                 *)
(***************************************************************************)
\* _config._get_actual_op_param: the global override wins unless "default"
_get_actual_op_param(function_param, config_param) ==
    IF config_param = "default" THEN function_param ELSE config_param

\* Strategy(0) | PROFILE or HEURISTIC | REPRODUCIBLE, as a set of flags
StrategyOf(_benchmark_kernel, _deterministic_kernel) ==
    (IF _benchmark_kernel THEN {"PROFILE"} ELSE {"HEURISTIC"})
        \cup (IF _deterministic_kernel THEN {"REPRODUCIBLE"} ELSE {})

\* SelectPath with the "not transpose_a" test of the elif dropped
SelectPath_NoTransposeTest(dim1, dim2, transpose_a) ==
    LET maxdim == IF dim1 > dim2 THEN dim1 ELSE dim2 IN
    IF dim1 = 1 /\ dim2 = 1 THEN "dot"
    ELSE IF maxdim <= 2 \/ dim2 <= 2 THEN "plain"
    ELSE "batched"

\* the if / elif / else of _matmul
SelectPath(dim1, dim2, transpose_a) ==
    LET maxdim == IF dim1 > dim2 THEN dim1 ELSE dim2 IN
    IF dim1 = 1 /\ dim2 = 1 THEN "dot"
    ELSE IF maxdim <= 2 \/ (dim2 <= 2 /\ ~transpose_a) THEN "plain"
    ELSE "batched"

\* builtin.Dot : two vectors of the same length, scalar-like result
Dot(a, b) ==
    IF Len(a) = 1 /\ Len(b) = 1 /\ a = b THEN T(<<>>) ELSE Failed

\* the result of the primitive or program the selected path runs
RunPath(path, shape1, shape2, transpose_a, transpose_b) ==
    CASE path = "dot" -> Dot(shape1, shape2)
      [] path = "plain" -> extentedMatrixMulOp(shape1, shape2, transpose_a, transpose_b)
      [] path = "batched" -> extentedBatchedMatrixMulOp(shape1, shape2, transpose_a, transpose_b)

NoCall == [path |-> "none", compute_mode |-> "default", strategy |-> {}, result |-> Failed]

Matmul ==
    /\ mm_pc = "ready"
    /\ LET dim1 == Len(mm_in.shape1)
           dim2 == Len(mm_in.shape2)
           path == SelectPath(dim1, dim2, mm_in.transpose_a)
       IN  /\ dim1 > 0 /\ dim2 > 0
           /\ mm_out' = [path |-> path,
                         compute_mode |-> _get_actual_op_param(mm_in.compute_mode,
                                                               mm_in.config_compute_mode),
                         strategy |-> StrategyOf(mm_in._benchmark_kernel,
                                                 mm_in._deterministic_kernel),
                         result |-> RunPath(path, mm_in.shape1, mm_in.shape2,
                                            mm_in.transpose_a, mm_in.transpose_b)]
    /\ mm_pc' = "done"
    /\ UNCHANGED <<mm_in, cache, builds, requested, th, q_pc, q_in, q_dtype, q_arr, q_back>>
    /\ UNCHANGED tensorVars

(***************************************************************************)
(* Inputs of the matmul specifications                                     *)
(***************************************************************************)
Ranks == 1..MaxRank
Extents == 1..MaxDim
ComputeModes == {"default", "float32"}
Formats == {"default", "mk4"}

UnitShape(d) == [i \in 1..d |-> 1]

\* operand shapes: every trailing extent, batch extents unit or not
BatchExtents == {1, MaxDim}
ShapesOfRank(d) ==
    IF d = 1 THEN {<<k>> : k \in Extents}
    ELSE {b \o <<r, c>> : b \in [1..(d - 2) -> BatchExtents], r \in Extents, c \in Extents}
Shapes == UNION {ShapesOfRank(d) : d \in Ranks}

CacheIdle ==
    /\ cache = [g \in {"plain", "batched"} |-> {}]
    /\ builds = [g \in {"plain", "batched"} |-> {}]
    /\ requested = [g \in {"plain", "batched"} |-> {}]
    /\ th = <<>>

QuantIdle ==
    /\ q_pc = "off"
    /\ q_in = <<>>
    /\ q_dtype = <<>>
    /\ q_arr = <<>>
    /\ q_back = <<>>

TensorIdle ==
    /\ t_pc = "off"
    /\ t_self = <<>>
    /\ t_in = <<>>
    /\ t_out = <<>>
    /\ t_trace = <<>>

InitDispatch ==
    /\ mm_pc = "ready"
    /\ mm_in \in [shape1 : {UnitShape(d) : d \in Ranks},
                  shape2 : {UnitShape(d) : d \in Ranks},
                  transpose_a : BOOLEAN, transpose_b : BOOLEAN,
                  compute_mode : ComputeModes, config_compute_mode : ComputeModes,
                  format : Formats,
                  _benchmark_kernel : BOOLEAN, _deterministic_kernel : BOOLEAN]
    /\ mm_out = NoCall
    /\ CacheIdle /\ QuantIdle /\ TensorIdle

InitShape ==
    /\ mm_pc = "ready"
    /\ mm_in \in [shape1 : Shapes, shape2 : Shapes,
                  transpose_a : BOOLEAN, transpose_b : BOOLEAN,
                  compute_mode : {"default"}, config_compute_mode : {"default"},
                  format : {"default"},
                  _benchmark_kernel : {FALSE}, _deterministic_kernel : {FALSE}]
    /\ mm_out = NoCall
    /\ CacheIdle /\ QuantIdle /\ TensorIdle

NextMatmul == Matmul

SpecDispatch == InitDispatch /\ [][NextMatmul]_vars
SpecShape == InitShape /\ [][NextMatmul]_vars

(***************************************************************************)
(* Claims about _matmul                                                    *)
(***************************************************************************)
d1 == Len(mm_in.shape1)
d2 == Len(mm_in.shape2)

\* the path the dispatch table of the specification names for (d1, d2, transpose_a)
TablePath(r1, r2, ta) ==
    IF r1 = 1 /\ r2 = 1 THEN "dot"
    ELSE IF \/ <<r1, r2>> \in {<<2, 2>>, <<1, 2>>, <<2, 1>>}
            \/ (r1 >= 3 /\ r2 \in {1, 2} /\ ~ta)
         THEN "plain"
    ELSE "batched"

\* C1: after any _matmul call the selected path is the one the table gives
\* for (d1, d2, transpose_a): dot for (1,1); plain for (2,2), (1,2), (2,1)
\* and for (N,1), (N,2) with N >= 3 and transpose_a false; batched
\* otherwise -- whatever transpose_b, compute mode, format and strategy are.
C1_PathByRanksAndTransposeA ==
    mm_pc = "done" => mm_out.path = TablePath(d1, d2, mm_in.transpose_a)

C1_Witness ==
    /\ mm_pc = "done"
    /\ d1 = 4 /\ d2 = 2 /\ ~mm_in.transpose_a /\ mm_in.transpose_b
    /\ mm_in.compute_mode = "float32" /\ mm_in.format = "mk4"
    /\ mm_out.strategy = {"PROFILE", "REPRODUCIBLE"}
    /\ mm_out.path = "plain"

\* the operands as matrices: a vector is a row (first) or a column (second)
AsMatrix1(s) == IF Len(s) = 1 THEN <<1, s[1]>> ELSE s
AsMatrix2(s) == IF Len(s) = 1 THEN <<s[1], 1>> ELSE s
Batch(s) == SubSeq(s, 1, Len(s) - 2)
FromRight(s, i) == s[Len(s) - i + 1]

\* batch extents agree or one of them is 1, aligned from the right
BroadcastCompatible(b1, b2) ==
    \A i \in 1..Min(Len(b1), Len(b2)) :
        FromRight(b1, i) = FromRight(b2, i) \/ FromRight(b1, i) = 1 \/ FromRight(b2, i) = 1

\* batch extents agree wherever both operands have one
SuffixCompatible(b1, b2) ==
    \A i \in 1..Min(Len(b1), Len(b2)) : FromRight(b1, i) = FromRight(b2, i)

BroadcastShape(b1, b2) ==
    LET n == Max(Len(b1), Len(b2)) IN
    [j \in 1..n |->
        LET i == n - j + 1
            x == IF i <= Len(b1) THEN FromRight(b1, i) ELSE 1
            y == IF i <= Len(b2) THEN FromRight(b2, i) ELSE 1
        IN  Max(x, y)]

Inner1(s, ta) == IF ta THEN s[Len(s) - 1] ELSE s[Len(s)]
Inner2(s, tb) == IF tb THEN s[Len(s)] ELSE s[Len(s) - 1]
Outer1(s, ta) == IF ta THEN s[Len(s)] ELSE s[Len(s) - 1]
Outer2(s, tb) == IF tb THEN s[Len(s) - 1] ELSE s[Len(s)]

\* the standard batched-broadcast matmul shape
StdMatmulShape(s1, s2, ta, tb) ==
    BroadcastShape(Batch(AsMatrix1(s1)), Batch(AsMatrix2(s2)))
        \o (IF Len(s1) = 1 THEN <<>> ELSE <<Outer1(s1, ta)>>)
        \o (IF Len(s2) = 1 THEN <<>> ELSE <<Outer2(s2, tb)>>)

\* the operands the shape rule speaks of: not both vectors, a transpose flag
\* only on an operand that has two trailing axes, contraction extents equal
MatmulOperands ==
    /\ ~(d1 = 1 /\ d2 = 1)
    /\ (d1 = 1 => ~mm_in.transpose_a) /\ (d2 = 1 => ~mm_in.transpose_b)
    /\ Inner1(AsMatrix1(mm_in.shape1), mm_in.transpose_a)
           = Inner2(AsMatrix2(mm_in.shape2), mm_in.transpose_b)

ResultIsStdShape ==
    /\ mm_out.result.ok
    /\ mm_out.result.shape = StdMatmulShape(mm_in.shape1, mm_in.shape2,
                                            mm_in.transpose_a, mm_in.transpose_b)

Getters == {"plain", "batched"}

\* _Hashable.__hash__: hash(str(value)). Which strings str() gives is not
\* fixed here, so the hash is only some function of the value, and a coarse
\* one: distinct strategies may collide and __eq__ has to tell them apart.
_Hashable__hash__(value) == Cardinality(value)

\* _Hashable.__eq__ answering True for any other _Hashable
_Hashable__eq__AnyHashable(a, b) == TRUE

\* _Hashable.__eq__: both are _Hashable and the wrapped values are equal
_Hashable__eq__(a, b) == a = b

\* the arguments symbolicMatrixMul hands to the getter
MakeKey(device, dtype, dim1, dim2, transpose_a, transpose_b, compute_mode, format, strategy) ==
    [device |-> device, dtype |-> dtype, dim1 |-> dim1, dim2 |-> dim2,
     transpose_a |-> transpose_a, transpose_b |-> transpose_b,
     compute_mode |-> compute_mode, format |-> format, strategy |-> strategy]

\* hash and equality of the tuple lru_cache makes of the arguments
KeyHash(k) ==
    <<k.device, k.dtype, k.dim1, k.dim2, k.transpose_a, k.transpose_b,
      k.compute_mode, k.format, _Hashable__hash__(k.strategy)>>
KeyEq(k1, k2) ==
    /\ k1.device = k2.device /\ k1.dtype = k2.dtype
    /\ k1.dim1 = k2.dim1 /\ k1.dim2 = k2.dim2
    /\ k1.transpose_a = k2.transpose_a /\ k1.transpose_b = k2.transpose_b
    /\ k1.compute_mode = k2.compute_mode /\ k1.format = k2.format
    /\ _Hashable__eq__(k1.strategy, k2.strategy)

\* dict lookup: the entries whose key has the same hash and compares equal
CacheGet(c, k) == {e \in c : KeyHash(e.key) = KeyHash(k) /\ KeyEq(e.key, k)}

\* a store that drops every other entry of the dict
CacheSet_Clobber(c, k, prog) == {[key |-> k, prog |-> prog]}

\* dict store: an equal key keeps its slot and gets the new value
CacheSet(c, k, prog) ==
    IF CacheGet(c, k) = {} THEN c \cup {[key |-> k, prog |-> prog]}
    ELSE {IF e \in CacheGet(c, k) THEN [e EXCEPT !.prog = prog] ELSE e : e \in c}

BuildCount(g, k) ==
    LET hit == {b \in builds[g] : b.key = k} IN
    IF hit = {} THEN 0 ELSE (CHOOSE b \in hit : TRUE).n

\* the body of the getter: a new program closed over its own arguments
BuildProgram(g, k, n) == [getter |-> g, key |-> k, build |-> n]

BaseKey == MakeKey("gpu0", "float32", 3, 2, FALSE, FALSE, "default", "default", {"HEURISTIC"})
NoProg == [getter |-> "none", key |-> BaseKey, build |-> 0]
IdleThread(n, limit) ==
    [pc |-> "idle", getter |-> "none", key |-> BaseKey, prog |-> NoProg,
     calls |-> n, limit |-> limit]

\* symbolicMatrixMul / symbolicBatchedMatrixMul enter the lru_cache wrapper:
\* the key is looked up; a hit returns the cached program
Call(t, g, k) ==
    /\ th[t].pc = "idle" /\ th[t].calls < th[t].limit
    /\ requested' = [requested EXCEPT ![g] = @ \cup {k}]
    /\ LET hit == CacheGet(cache[g], k) IN
       th' = [th EXCEPT ![t] =
                 IF hit = {}
                 THEN [@ EXCEPT !.pc = "miss", !.getter = g, !.key = k]
                 ELSE [@ EXCEPT !.pc = "got", !.getter = g, !.key = k,
                                !.prog = (CHOOSE e \in hit : TRUE).prog]]
    /\ UNCHANGED <<cache, builds, mm_pc, mm_in, mm_out, q_pc, q_in, q_dtype, q_arr, q_back>>
    /\ UNCHANGED tensorVars

\* on a miss the wrapper runs the getter's body
Build(t) ==
    /\ th[t].pc = "miss"
    /\ LET g == th[t].getter
           k == th[t].key
           n == BuildCount(g, k) + 1
       IN  /\ builds' = [builds EXCEPT ![g] =
                             {b \in @ : b.key # k} \cup {[key |-> k, n |-> n]}]
           /\ th' = [th EXCEPT ![t].pc = "built", ![t].prog = BuildProgram(g, k, n)]
    /\ UNCHANGED <<cache, requested, mm_pc, mm_in, mm_out, q_pc, q_in, q_dtype, q_arr, q_back>>
    /\ UNCHANGED tensorVars

\* ... and stores what the body returned under the key
Store(t) ==
    /\ th[t].pc = "built"
    /\ cache' = [cache EXCEPT ![th[t].getter] = CacheSet(@, th[t].key, th[t].prog)]
    /\ th' = [th EXCEPT ![t].pc = "got"]
    /\ UNCHANGED <<builds, requested, mm_pc, mm_in, mm_out, q_pc, q_in, q_dtype, q_arr, q_back>>
    /\ UNCHANGED tensorVars

\* apply(program(), inp1, inp2) and return
Apply(t) ==
    /\ th[t].pc = "got"
    /\ th' = [th EXCEPT ![t] = IdleThread(@.calls + 1, @.limit)]
    /\ UNCHANGED <<cache, builds, requested, mm_pc, mm_in, mm_out, q_pc, q_in, q_dtype, q_arr, q_back>>
    /\ UNCHANGED tensorVars

\* keys: a base key and, for every component, a key that differs in it alone
KeySet ==
    {BaseKey,
     [BaseKey EXCEPT !.device = "cpu0"],
     [BaseKey EXCEPT !.dtype = "float16"],
     [BaseKey EXCEPT !.dim1 = 4],
     [BaseKey EXCEPT !.dim2 = 1],
     [BaseKey EXCEPT !.transpose_a = TRUE],
     [BaseKey EXCEPT !.transpose_b = TRUE],
     [BaseKey EXCEPT !.compute_mode = "float32"],
     [BaseKey EXCEPT !.format = "mk4"],
     [BaseKey EXCEPT !.strategy = {"PROFILE"}],
     [BaseKey EXCEPT !.strategy = {"HEURISTIC", "REPRODUCIBLE"}]}

ConcKeys == {BaseKey, [BaseKey EXCEPT !.strategy = {"PROFILE"}]}

MatmulIdle ==
    /\ mm_pc = "off"
    /\ mm_in = <<>>
    /\ mm_out = NoCall

InitCache(threads, limit) ==
    /\ cache = [g \in Getters |-> {}]
    /\ builds = [g \in Getters |-> {}]
    /\ requested = [g \in Getters |-> {}]
    /\ th = [t \in threads |-> IdleThread(0, limit)]
    /\ MatmulIdle /\ QuantIdle /\ TensorIdle

InitCacheSeq == InitCache({1}, MaxCalls)
InitCacheConc == InitCache(1..NThreads, MaxConcCalls)

NextCacheSeq ==
    \/ \E g \in Getters, k \in KeySet : Call(1, g, k)
    \/ Build(1)
    \/ Store(1)
    \/ Apply(1)

NextCacheConc ==
    \/ \E t \in DOMAIN th, k \in ConcKeys : Call(t, "batched", k)
    \/ \E t \in DOMAIN th : Build(t)
    \/ \E t \in DOMAIN th : Store(t)
    \/ \E t \in DOMAIN th : Apply(t)

SpecCacheSeq == InitCacheSeq /\ [][NextCacheSeq]_vars
SpecCacheConc == InitCacheConc /\ [][NextCacheConc]_vars

(***************************************************************************)
(* Claims about the program cache                                          *)
(***************************************************************************)
Calling(t, g, k) == th[t].getter = g /\ th[t].key = k
ProfileKey == [BaseKey EXCEPT !.strategy = {"PROFILE"}]

\* C3: in a sequence of calls the getter's body has run exactly once for
\* every key asked for so far (not yet for a key whose first call is still
\* before its build, never for a key not asked for), and a call that is
\* about to return holds the program of that one build of its own key.
C3_BuildOncePerKey ==
    /\ \A g \in Getters, k \in KeySet :
          BuildCount(g, k) =
              IF k \in requested[g] /\ ~(th[1].pc = "miss" /\ Calling(1, g, k))
              THEN 1 ELSE 0
    /\ th[1].pc = "got" => th[1].prog = BuildProgram(th[1].getter, th[1].key, 1)

\* the third call repeats the first key after a call that differed in the
\* strategy alone: two builds, the third call reuses the first program
C3_Witness ==
    /\ th[1].calls = 2 /\ th[1].pc = "got" /\ Calling(1, "plain", BaseKey)
    /\ requested = [plain |-> {BaseKey, ProfileKey}, batched |-> {}]
    /\ BuildCount("plain", BaseKey) = 1 /\ BuildCount("plain", ProfileKey) = 1
    /\ Cardinality(cache["plain"]) = 2

C4_StateOk ==
    /\ \A g \in Getters : \A e \in cache[g] :
          /\ e.prog.key = e.key /\ e.prog.getter = g
          /\ \A e2 \in cache[g] : e2.key = e.key => e2 = e
    /\ \A t \in DOMAIN th :
          th[t].pc \in {"built", "got"} =>
              th[t].prog.key = th[t].key /\ th[t].prog.getter = th[t].getter
    /\ (\A t \in DOMAIN th : th[t].pc = "idle") =>
          \A g \in Getters : {e.key : e \in cache[g]} = requested[g]

C4_StepOk ==
    \A g \in Getters : \A e \in cache[g] :
        \E e2 \in cache'[g] : e2.key = e.key /\ e2.prog.key = e.key

\* C4: under any interleaving of the threads every cached program and every
\* program a caller holds was built for its own key, the cache holds one
\* program per key and, once no call is in progress, exactly the keys asked
\* for; and no step removes an entry or puts another key's program in it.
C4_CacheNeverCorrupted == [](C4_StateOk) /\ [][C4_StepOk]_vars

\* two threads both built the program of one key; the second build is the
\* one kept, the first caller still holds its own build
C4_Witness ==
    /\ BuildCount("batched", BaseKey) = 2
    /\ cache["batched"] = {[key |-> BaseKey, prog |-> BuildProgram("batched", BaseKey, 2)]}
    /\ th[1].pc = "got" /\ Calling(1, "batched", BaseKey)
    /\ th[1].prog = BuildProgram("batched", BaseKey, 1)
    /\ th[2].pc = "got" /\ Calling(2, "batched", BaseKey)

(***************************************************************************)
(* Binary floating point.  A number is m * 2^e with m odd (or m = e = 0);  *)
(* float32 keeps 24 significant bits, float64 53.  Every value of the      *)
(* model has fewer than 32 significant bits.                               *)
(***************************************************************************)
RECURSIVE Pow2(_)
Pow2(n) == IF n = 0 THEN 1 ELSE 2 * Pow2(n - 1)

Abs(n) == IF n < 0 THEN -n ELSE n

\* number of significant bits of |n|
RECURSIVE BitLen(_)
BitLen(n) == IF n = 0 THEN 0 ELSE 1 + BitLen(Abs(n) \div 2)

RECURSIVE Dy(_, _)
Dy(m, e) ==
    IF m = 0 THEN [m |-> 0, e |-> 0]
    ELSE IF m % 2 = 0 THEN Dy(m \div 2, e + 1)
    ELSE [m |-> m, e |-> e]

DyInt(n) == Dy(n, 0)
\* n / 2^k
DyFrac(n, k) == Dy(n, -k)
DyNeg(x) == [m |-> -x.m, e |-> x.e]
\* position of the leading bit: |x| is in [2^(Top-1), 2^Top)
Top(x) == BitLen(x.m) + x.e

\* n divided by 2^k, rounded to the nearest integer, ties to even
RoundHalfEvenShift(n, k) ==
    LET d == Pow2(k)
        q == Abs(n) \div d
        r == Abs(n) % d
        up == 2 * r > d \/ (2 * r = d /\ q % 2 = 1)
        a == IF up THEN q + 1 ELSE q
    IN  IF n < 0 THEN -a ELSE a

\* rounding to p significant bits, ties to even (float32: 24, float64: 53)
RoundToPrecision(x, p) ==
    IF BitLen(x.m) <= p THEN x
    ELSE LET k == BitLen(x.m) - p IN Dy(RoundHalfEvenShift(x.m, k), x.e + k)

Precision(np) == IF np = "float32" THEN 24 ELSE 53

\* np.round: to the nearest integer, ties to even
Rint(x) == IF x.e >= 0 THEN x ELSE DyInt(RoundHalfEvenShift(x.m, -x.e))

\* x < y
DyLess(x, y) ==
    IF x.m <= 0 /\ y.m > 0 THEN x.m < y.m
    ELSE IF x.m > 0 /\ y.m <= 0 THEN FALSE
    ELSE IF x.m = 0 THEN y.m > 0
    ELSE IF y.m = 0 THEN x.m < 0
    ELSE LET neg == x.m < 0
             a == IF neg THEN DyNeg(y) ELSE x   \* both positive: a < b
             b == IF neg THEN DyNeg(x) ELSE y
         IN  IF Top(a) # Top(b) THEN Top(a) < Top(b)
             ELSE IF a.e >= b.e THEN a.m * Pow2(a.e - b.e) < b.m
             ELSE a.m < b.m * Pow2(b.e - a.e)

\* x + y, exact (the sum must have fewer than 32 significant bits)
DyAdd(x, y) ==
    LET e == IF x.e < y.e THEN x.e ELSE y.e
    IN  Dy(x.m * Pow2(x.e - e) + y.m * Pow2(y.e - e), e)

\* x * y and x / y for y a power of two, as are the scales of the model
DyMul(x, y) == Dy(x.m * y.m, x.e + y.e)
DyDiv(x, y) == Dy(x.m * y.m, x.e - y.e)

\* the integer an integral x with |x| < 2^31 stands for
DyToInt(x) == IF x.m = -1 /\ x.e = 31 THEN -2147483647 - 1 ELSE x.m * Pow2(x.e)

IsIntegral(x) == x.e >= 0

(***************************************************************************)
(* dtype.py: the catalog of quantized dtype descriptors                    *)
(***************************************************************************)
Int32Min == -2147483647 - 1
Int32Max == 2147483647

\* np_dtype_str[0] == "u"
StartsWithU(np_dtype_str) == np_dtype_str \in {"uint8", "uint16", "uint32"}

\* QuantDtypeMeta.__new__ with is_unsigned left to its default
QuantDtypeMeta(name, cname, np_dtype_str, qmin, qmax) ==
    [name |-> name, cname |-> cname, np_dtype_str |-> np_dtype_str,
     qmin |-> qmin, qmax |-> qmax, is_unsigned |-> StartsWithU(np_dtype_str)]

_builtin_quant_dtypes ==
    [n \in {"quint8", "qint8", "qint8_narrow", "quint4", "qint4", "qint1",
            "qint32", "quint2", "qint2"} |->
        CASE n = "quint8" -> QuantDtypeMeta("quint8", "Quantized8Asymm", "uint8", 0, 255)
          [] n = "qint8" -> QuantDtypeMeta("qint8", "QuantizedS8", "int8", -128, 127)
          [] n = "qint8_narrow" -> QuantDtypeMeta("qint8_narrow", "QuantizedS8", "int8", -127, 127)
          [] n = "quint4" -> QuantDtypeMeta("quint4", "Quantized4Asymm", "uint8", 0, 15)
          [] n = "qint4" -> QuantDtypeMeta("qint4", "QuantizedS4", "int8", -8, 7)
          [] n = "qint1" -> QuantDtypeMeta("qint1", "QuantizedS1", "int8", 0, 1)
          [] n = "qint32" -> QuantDtypeMeta("qint32", "QuantizedS32", "int32", Int32Min, Int32Max)
          [] n = "quint2" -> QuantDtypeMeta("quint2", "None", "uint8", 0, 3)
          [] n = "qint2" -> QuantDtypeMeta("qint2", "None", "int8", -2, 1)]

CatalogNames == DOMAIN _builtin_quant_dtypes
\* the catalog entries that have conversion routines and named constructors
Kinds == {"quint8", "qint8", "qint32", "quint4", "qint4", "qint1"}

(***************************************************************************)
(* np.dtype values, with or without the "mgb_dtype" metadata               *)
(***************************************************************************)
NpDtype(np, metadata) == [np |-> np, metadata |-> metadata]
NoDtype == NpDtype("", <<>>)
Raised(error) == [ok |-> FALSE, raised |-> error, dtype |-> NoDtype]
Made(dtype) == [ok |-> TRUE, raised |-> "", dtype |-> dtype]

\* common.is_quantize: the dtype carries mgb_dtype metadata
is_quantize(dtype) == "mgb_dtype" \in DOMAIN dtype.metadata

\* a zp argument: None or a number
ZpNone == [none |-> TRUE, m |-> 0, e |-> 0]
ZpNum(x) == [none |-> FALSE, m |-> x.m, e |-> x.e]
ZpVal(zp) == [m |-> zp.m, e |-> zp.e]

\* int(x): truncation towards zero
PyInt(x) ==
    IF x.e >= 0 THEN DyToInt(x)
    ELSE LET a == Abs(x.m) \div Pow2(-x.e) IN IF x.m < 0 THEN -a ELSE a

\* float(x): the nearest float64
PyFloat(x) == RoundToPrecision(x, 53)

\* _check_zero_point with the ends of the range excluded
_check_zero_point_EndsExcluded(zp, dtype_meta) ==
    zp <= dtype_meta.qmin \/ zp >= dtype_meta.qmax

\* _check_zero_point: TRUE when it raises ValueError
_check_zero_point(zp, dtype_meta) ==
    zp < dtype_meta.qmin \/ zp > dtype_meta.qmax

\* create_quantized_dtype stamping zero_point = 0 on signed types
create_quantized_dtype_SignedZp(dtype_meta, scale, zp) ==
    IF dtype_meta.cname = "None" THEN Raised("ValueError")
    ELSE IF dtype_meta.is_unsigned /\ (zp.none \/ DyInt(PyInt(ZpVal(zp))) # ZpVal(zp))
    THEN Raised("ValueError")
    ELSE IF dtype_meta.is_unsigned /\ _check_zero_point(PyInt(ZpVal(zp)), dtype_meta)
    THEN Raised("ValueError")
    ELSE Made(NpDtype(dtype_meta.np_dtype_str,
                      [mgb_dtype |-> [name |-> dtype_meta.cname,
                                      scale |-> PyFloat(scale),
                                      zero_point |-> IF dtype_meta.is_unsigned
                                                     THEN PyInt(ZpVal(zp)) ELSE 0]]))

create_quantized_dtype(dtype_meta, scale, zp) ==
    IF dtype_meta.cname = "None" THEN Raised("ValueError")
    ELSE IF dtype_meta.is_unsigned
    THEN IF zp.none \/ DyInt(PyInt(ZpVal(zp))) # ZpVal(zp) THEN Raised("ValueError")
         ELSE IF _check_zero_point(PyInt(ZpVal(zp)), dtype_meta) THEN Raised("ValueError")
         ELSE Made(NpDtype(dtype_meta.np_dtype_str,
                           [mgb_dtype |-> [name |-> dtype_meta.cname,
                                           scale |-> PyFloat(scale),
                                           zero_point |-> PyInt(ZpVal(zp))]]))
    ELSE Made(NpDtype(dtype_meta.np_dtype_str,
                      [mgb_dtype |-> [name |-> dtype_meta.cname,
                                      scale |-> PyFloat(scale)]]))

\* the named constructors
quint8(scale, zero_point) ==
    create_quantized_dtype(_builtin_quant_dtypes["quint8"], scale, zero_point)
qint8(scale) == create_quantized_dtype(_builtin_quant_dtypes["qint8"], scale, ZpNone)
qint32(scale) == create_quantized_dtype(_builtin_quant_dtypes["qint32"], scale, ZpNone)
quint4(scale, zero_point) ==
    create_quantized_dtype(_builtin_quant_dtypes["quint4"], scale, zero_point)
qint4(scale) == create_quantized_dtype(_builtin_quant_dtypes["qint4"], scale, ZpNone)
qint1(scale) == create_quantized_dtype(_builtin_quant_dtypes["qint1"], scale, ZpNone)

NamedConstructor(kind, scale, zero_point) ==
    CASE kind = "quint8" -> quint8(scale, zero_point)
      [] kind = "qint8" -> qint8(scale)
      [] kind = "qint32" -> qint32(scale)
      [] kind = "quint4" -> quint4(scale, zero_point)
      [] kind = "qint4" -> qint4(scale)
      [] kind = "qint1" -> qint1(scale)

(***************************************************************************)
(* dtype.py: conversion between float arrays and quantized arrays          *)
(***************************************************************************)
\* a one-element array (or, with ndarray FALSE, a value that is no array)
NdArray(dtype, value) ==
    [ok |-> TRUE, raised |-> "", ndarray |-> TRUE, dtype |-> dtype, value |-> value]
NotArray(value) ==
    [ok |-> TRUE, raised |-> "", ndarray |-> FALSE, dtype |-> NoDtype, value |-> value]
ArrRaised(error) ==
    [ok |-> FALSE, raised |-> error, ndarray |-> FALSE, dtype |-> NoDtype,
     value |-> DyInt(0)]

StorageMin(np) == CASE np = "uint8" -> 0 [] np = "int8" -> -128 [] OTHER -> Int32Min
StorageMax(np) == CASE np = "uint8" -> 255 [] np = "int8" -> 127 [] OTHER -> Int32Max

\* truncation of a float towards zero
Trunc(x) == IF x.e >= 0 THEN x ELSE DyInt(PyInt(x))

\* ndarray.astype(integer type): the set of results the cast can give.  A
\* float outside the target range has no defined result: the conversion
\* instruction gives the lowest value on some machines and saturates on others.
AsType(x, np) ==
    LET t == Trunc(x)
        lo == DyInt(StorageMin(np))
        hi == DyInt(StorageMax(np))
    IN  IF ~DyLess(t, lo) /\ ~DyLess(hi, t) THEN {t} ELSE {lo, hi}

\* ndarray.clip(lo, hi) == minimum(maximum(x, lo), hi)
Clip(x, lo, hi) ==
    LET a == IF DyLess(x, lo) THEN lo ELSE x
    IN  IF DyLess(hi, a) THEN hi ELSE a

\* the set of arrays _convert_to_quantized_dtype can return
_convert_to_quantized_dtype(arr, dtype, dtype_meta) ==
    IF ~arr.ndarray THEN {ArrRaised("ValueError")}
    ELSE IF ~is_quantize(dtype) THEN {ArrRaised("ValueError")}
    ELSE IF dtype.metadata.mgb_dtype.name # dtype_meta.cname THEN {ArrRaised("ValueError")}
    ELSE LET arr_metadata == dtype.metadata.mgb_dtype
             p == Precision(arr.dtype.np)
             scale == RoundToPrecision(arr_metadata.scale, p)
             rounded == Rint(RoundToPrecision(DyDiv(arr.value, scale), p))
             shifted == IF dtype_meta.is_unsigned
                        THEN RoundToPrecision(
                                 DyAdd(rounded, DyInt(arr_metadata.zero_point)), p)
                        ELSE rounded
             clipped == Clip(shifted,
                             RoundToPrecision(DyInt(dtype_meta.qmin), p),
                             RoundToPrecision(DyInt(dtype_meta.qmax), p))
         IN  {NdArray(dtype, c) : c \in AsType(clipped, dtype.np)}

_convert_from_quantized_dtype(arr, dtype_meta) ==
    IF ~arr.ndarray THEN ArrRaised("ValueError")
    ELSE IF ~is_quantize(arr.dtype) THEN ArrRaised("ValueError")
    ELSE IF arr.dtype.metadata.mgb_dtype.name # dtype_meta.cname
    THEN ArrRaised("ValueError")
    ELSE LET arr_metadata == arr.dtype.metadata.mgb_dtype
             f == RoundToPrecision(arr.value, 24)
             scale == RoundToPrecision(arr_metadata.scale, 24)
             shifted == IF dtype_meta.is_unsigned
                        THEN RoundToPrecision(
                                 DyAdd(f, DyInt(-arr_metadata.zero_point)), 24)
                        ELSE f
         IN  NdArray(NpDtype("float32", <<>>),
                     RoundToPrecision(DyMul(shifted, scale), 24))

\* convert_to_quint8 .. convert_to_qint1
ConvertToKind(kind, arr, q) ==
    _convert_to_quantized_dtype(arr, q, _builtin_quant_dtypes[kind])
\* convert_from_<kind> handing every array to the quint8 descriptor
ConvertFromKind_OneDescriptor(kind, arr) ==
    _convert_from_quantized_dtype(arr, _builtin_quant_dtypes["quint8"])

\* convert_from_quint8 .. convert_from_qint1
ConvertFromKind(kind, arr) ==
    _convert_from_quantized_dtype(arr, _builtin_quant_dtypes[kind])

(***************************************************************************)
(* Inputs of the quantization routines                                     *)
(***************************************************************************)
Scales == {Dy(1, e) : e \in (-MaxScaleExp)..MaxScaleExp}

\* the integers within Slack of n that fit 32 bits
NearInts(n) ==
    {n + k : k \in {j \in (-Slack)..Slack :
                        /\ j <= 0 \/ n <= Int32Max - j
                        /\ j >= 0 \/ n >= Int32Min - j}}

RangeEnds(metas) ==
    UNION {NearInts(_builtin_quant_dtypes[n].qmin) \cup
           NearInts(_builtin_quant_dtypes[n].qmax) : n \in metas}

UnsignedNames == {n \in CatalogNames : _builtin_quant_dtypes[n].is_unsigned}
ZpInts == RangeEnds(UnsignedNames)
\* None, integers around the ends of the unsigned ranges, and halves
Zps ==
    {ZpNone} \cup {ZpNum(DyInt(n)) : n \in ZpInts}
             \cup {ZpNum(DyFrac(2 * n + 1, 1)) : n \in ZpInts}

\* the integers around 2^24, where float32 stops holding every integer
F32Edge == {16777216 + k : k \in (-Slack)..(Slack + 2)}
\* magnitudes beyond every signed range
Beyond == {Dy(1, 31), Dy(3, 30), Dy(-3, 30)}

FloatValues(kind) ==
    LET meta == _builtin_quant_dtypes[kind]
        ints == RangeEnds({kind}) \cup NearInts(0)
        small == {n \in ints : n > -16777216 /\ n < 16777216}
    IN  {DyInt(n) : n \in ints \cup F32Edge}
        \cup {DyFrac(2 * n + 1, 1) : n \in small}
        \cup (IF meta.is_unsigned THEN {} ELSE Beyond)

PlainTypes == {"uint8", "int8", "int32"}

FloatArrays ==
    [kind \in Kinds |->
        {NdArray(NpDtype(np, <<>>), RoundToPrecision(v, Precision(np))) :
            np \in {"float32", "float64"}, v \in FloatValues(kind)}
        \cup {NotArray(DyInt(0))}]

\* the codes an array of storage type np can hold, around the interesting places
QuantCodes ==
    [np \in PlainTypes |->
        {q \in RangeEnds(CatalogNames) \cup NearInts(0) \cup F32Edge :
            q >= StorageMin(np) /\ q <= StorageMax(np)}]

(***************************************************************************)
(* The quantization routines as a state machine                            *)
(***************************************************************************)
\* create_quantized_dtype called on a catalog descriptor
CreateQuantizedDtype(name, scale, zp) ==
    /\ q_pc = "start"
    /\ q_pc' = "created"
    /\ q_in' = [via |-> "create", made_for |-> name, scale |-> scale, zp |-> zp]
    /\ q_dtype' = create_quantized_dtype(_builtin_quant_dtypes[name], scale, zp)
    /\ UNCHANGED <<q_arr, q_back>>
    /\ UNCHANGED <<mmVars, cacheVars, tensorVars>>

\* quint8(scale, zero_point), qint8(scale), ...
CallNamedConstructor(kind, scale, zp) ==
    /\ q_pc = "start"
    /\ _builtin_quant_dtypes[kind].is_unsigned \/ zp = ZpNone
    /\ q_pc' = "created"
    /\ q_in' = [via |-> "named", made_for |-> kind, scale |-> scale, zp |-> zp]
    /\ q_dtype' = NamedConstructor(kind, scale, zp)
    /\ UNCHANGED <<q_arr, q_back>>
    /\ UNCHANGED <<mmVars, cacheVars, tensorVars>>

\* np.dtype(np): a type without quantization metadata
PlainDtype(np) ==
    /\ q_pc = "start"
    /\ q_pc' = "created"
    /\ q_in' = [via |-> "plain", made_for |-> "none", scale |-> DyInt(1), zp |-> ZpNone]
    /\ q_dtype' = Made(NpDtype(np, <<>>))
    /\ UNCHANGED <<q_arr, q_back>>
    /\ UNCHANGED <<mmVars, cacheVars, tensorVars>>

\* an array that holds the code q in the type just made
QuantizedArray(q, nd) ==
    /\ q_pc = "created"
    /\ q_dtype.ok
    /\ q \in QuantCodes[q_dtype.dtype.np]
    /\ nd \/ q = 0
    /\ q_pc' = "array"
    /\ q_arr' = IF nd THEN NdArray(q_dtype.dtype, DyInt(q)) ELSE NotArray(DyInt(q))
    /\ q_in' = [made_for |-> q_in.made_for, kind |-> "none", arr |-> q_arr']
    /\ UNCHANGED <<q_dtype, q_back>>
    /\ UNCHANGED <<mmVars, cacheVars, tensorVars>>

\* convert_to_<kind>(arr, q_dtype) on a float array
ConvertTo(kind, arr) ==
    /\ q_pc = "created"
    /\ q_dtype.ok
    /\ q_pc' = "quantized"
    /\ q_in' = [made_for |-> q_in.made_for, kind |-> kind, arr |-> arr]
    /\ q_arr' \in ConvertToKind(kind, arr, q_dtype.dtype)
    /\ UNCHANGED <<q_dtype, q_back>>
    /\ UNCHANGED <<mmVars, cacheVars, tensorVars>>

\* convert_from_<kind>(q_arr) on the array convert_to_<kind> returned
ConvertBack(kind) ==
    /\ q_pc = "quantized"
    /\ q_arr.ok
    /\ kind = q_in.kind
    /\ q_pc' = "roundtrip"
    /\ q_back' = ConvertFromKind(kind, q_arr)
    /\ UNCHANGED <<q_in, q_dtype, q_arr>>
    /\ UNCHANGED <<mmVars, cacheVars, tensorVars>>

\* convert_from_<kind>(q_arr) on a given quantized array
ConvertFrom(kind) ==
    /\ q_pc = "array"
    /\ q_pc' = "dequantized"
    /\ q_in' = [q_in EXCEPT !.kind = kind]
    /\ q_back' = ConvertFromKind(kind, q_arr)
    /\ UNCHANGED <<q_dtype, q_arr>>
    /\ UNCHANGED <<mmVars, cacheVars, tensorVars>>

\* convert_to_<kind>(q_back, q_dtype) on the array convert_from_<kind> returned
ConvertAgain(kind) ==
    /\ q_pc = "dequantized"
    /\ q_back.ok
    /\ kind = q_in.kind
    /\ q_pc' = "requantized"
    /\ q_arr' \in ConvertToKind(kind, q_back, q_dtype.dtype)
    /\ UNCHANGED <<q_in, q_dtype, q_back>>
    /\ UNCHANGED <<mmVars, cacheVars, tensorVars>>

InitQuant ==
    /\ q_pc = "start"
    /\ q_in = <<>>
    /\ q_dtype = Raised("")
    /\ q_arr = ArrRaised("")
    /\ q_back = ArrRaised("")
    /\ MatmulIdle
    /\ CacheIdle
    /\ TensorIdle

NextQuant ==
    \/ \E name \in CatalogNames, scale \in Scales, zp \in Zps :
          CreateQuantizedDtype(name, scale, zp)
    \/ \E kind \in Kinds, scale \in Scales, zp \in Zps :
          CallNamedConstructor(kind, scale, zp)
    \/ \E np \in PlainTypes : PlainDtype(np)
    \/ \E q \in QuantCodes["int32"], nd \in BOOLEAN : QuantizedArray(q, nd)
    \/ \E kind \in Kinds : \E arr \in FloatArrays[kind] : ConvertTo(kind, arr)
    \/ \E kind \in Kinds : ConvertBack(kind)
    \/ \E kind \in Kinds : ConvertFrom(kind)
    \/ \E kind \in Kinds : ConvertAgain(kind)

SpecQuant == InitQuant /\ [][NextQuant]_vars

(***************************************************************************)
(* Claims about the quantized dtype factory                                *)
(***************************************************************************)
Created == q_pc = "created" /\ q_in.via \in {"create", "named"}
MadeFor == _builtin_quant_dtypes[q_in.made_for]
Stamp == q_dtype.dtype.metadata.mgb_dtype

ZpNonIntegral(zp) == zp.e < 0
ZpOutOfRange(zp, dtype_meta) ==
    \/ DyLess(ZpVal(zp), DyInt(dtype_meta.qmin))
    \/ DyLess(DyInt(dtype_meta.qmax), ZpVal(zp))

\* the cases in which the factory is said to fail
MustFail(dtype_meta, zp) ==
    \/ dtype_meta.cname = "None"
    \/ /\ dtype_meta.is_unsigned
       /\ zp.none \/ ZpNonIntegral(zp) \/ ZpOutOfRange(zp, dtype_meta)

\* C5: create_quantized_dtype(descriptor, scale, zp) fails with a validation
\* error exactly when the descriptor has no cname, or is unsigned with zp
\* None, non-integral or outside [qmin, qmax]; in every other case it returns
\* a type stamped with the descriptor's cname and float(scale).
C5_CreateFailsExactly ==
    (q_pc = "created" /\ q_in.via = "create") =>
        /\ ~q_dtype.ok <=> MustFail(MadeFor, q_in.zp)
        /\ ~q_dtype.ok => q_dtype.raised = "ValueError"
        /\ q_dtype.ok =>
              /\ is_quantize(q_dtype.dtype)
              /\ Stamp.name = MadeFor.cname
              /\ Stamp.scale = PyFloat(q_in.scale)

\* quint8 is asked for with zero_point 255 and made, and with 256 it would
\* not be: here the accepted end of the range
C5_Witness ==
    /\ q_pc = "created" /\ q_in.via = "create"
    /\ q_in.made_for = "quint8"
    /\ q_in.zp = ZpNum(DyInt(255))
    /\ q_dtype.ok
    /\ Stamp.name = "Quantized8Asymm"

\* C6: a type made by create_quantized_dtype or a named constructor has a
\* zero_point in its metadata if and only if its descriptor is unsigned; a
\* zero_point that is present is an integer within [qmin, qmax]; a signed
\* descriptor gives metadata without the field, whatever zp was passed.
C6_ZeroPointIffUnsigned ==
    (Created /\ q_dtype.ok) =>
        /\ "zero_point" \in DOMAIN Stamp <=> MadeFor.is_unsigned
        /\ "zero_point" \in DOMAIN Stamp =>
              /\ Stamp.zero_point \in Int
              /\ Stamp.zero_point >= MadeFor.qmin
              /\ Stamp.zero_point <= MadeFor.qmax
        /\ ~MadeFor.is_unsigned => DOMAIN Stamp = {"name", "scale"}

\* a signed type made by create_quantized_dtype with a zp argument passed
C6_Witness ==
    /\ Created /\ q_dtype.ok
    /\ q_in.via = "create"
    /\ q_in.made_for = "qint8"
    /\ q_in.zp = ZpNum(DyInt(0))
    /\ DOMAIN Stamp = {"name", "scale"}

(***************************************************************************)
(* Claims about the conversion routines                                    *)
(***************************************************************************)
KindMeta == _builtin_quant_dtypes[q_in.kind]

\* dtype is a quantized type stamped with the name of the descriptor of kind
NameMatches(dtype, kind) ==
    /\ is_quantize(dtype)
    /\ dtype.metadata.mgb_dtype.name = _builtin_quant_dtypes[kind].cname

\* the code the documentation gives for v: round(v / scale) (+ zero_point),
\* in exact arithmetic
UnclippedCode(v, stamp, dtype_meta) ==
    LET r == Rint(DyDiv(v, stamp.scale))
    IN  IF dtype_meta.is_unsigned THEN DyAdd(r, DyInt(stamp.zero_point)) ELSE r

InRange(x, dtype_meta) ==
    /\ ~DyLess(x, DyInt(dtype_meta.qmin))
    /\ ~DyLess(DyInt(dtype_meta.qmax), x)

\* C7 as stated: for every kind, valid scale and zero_point, and code q in
\* [qmin, qmax], convert_to_<kind>(convert_from_<kind>(q)) = q.
C7_AsStated ==
    (/\ q_pc = "requantized"
     /\ q_in.arr.ndarray
     /\ NameMatches(q_dtype.dtype, q_in.kind)
     /\ InRange(q_in.arr.value, KindMeta)) =>
        /\ q_back.ok
        /\ q_arr.ok
        /\ q_arr.value = q_in.arr.value

\* C8 as stated: a float v whose unclipped code lies in [qmin, qmax] comes
\* back from convert_to_<kind> then convert_from_<kind> within scale/2 of v.
C8_AsStated ==
    (/\ q_pc = "roundtrip"
     /\ InRange(UnclippedCode(q_in.arr.value, Stamp, KindMeta), KindMeta)) =>
        /\ q_back.ok
        /\ LET diff == DyAdd(q_back.value, DyNeg(q_in.arr.value))
               dist == IF diff.m < 0 THEN DyNeg(diff) ELSE diff
           IN  ~DyLess(DyMul(Stamp.scale, Dy(1, -1)), dist)

\* C9 as stated: for every input array and valid target type the result of
\* convert_to_<kind> is clip(round(v / scale) (+ zero_point), qmin, qmax) with
\* the range of the descriptor of <kind>, hence within [qmin, qmax].
C9_AsStated ==
    (/\ q_pc = "quantized"
     /\ q_in.arr.ndarray
     /\ NameMatches(q_dtype.dtype, q_in.kind)) =>
        /\ q_arr.ok
        /\ q_arr.value = Clip(UnclippedCode(q_in.arr.value, Stamp, KindMeta),
                              DyInt(KindMeta.qmin), DyInt(KindMeta.qmax))
        /\ InRange(q_arr.value, KindMeta)

\* the two rejections every conversion routine makes
RejectsUnstamped ==
    /\ (q_pc = "quantized" /\ ~NameMatches(q_dtype.dtype, q_in.kind)) =>
          ~q_arr.ok /\ q_arr.raised = "ValueError"
    /\ (q_pc = "dequantized" /\ ~NameMatches(q_arr.dtype, q_in.kind)) =>
          ~q_back.ok /\ q_back.raised = "ValueError"

Converted == q_pc \in {"quantized", "dequantized"} /\ q_in.made_for # "none"
Outcome == IF q_pc = "quantized" THEN q_arr ELSE q_back

\* C10 as stated: on top of the two rejections, a type created for one
\* catalog descriptor is never accepted by the routines of another one.
C10_AsStated ==
    /\ RejectsUnstamped
    /\ (Converted /\ q_in.made_for # q_in.kind) => ~Outcome.ok

\* C10: convert_to_<kind> fails whenever target_type is not a quantized type
\* stamped with the name of the descriptor of <kind>, and convert_from_<kind>
\* whenever the dtype of the array is not; a type created for a descriptor
\* with another cname than that of <kind> is never accepted.
C10_RejectsOtherNames ==
    /\ RejectsUnstamped
    /\ (Converted /\ MadeFor.cname # KindMeta.cname) => ~Outcome.ok

\* a quint8 array handed to convert_from_qint8 is turned down
C10_Witness ==
    /\ q_pc = "dequantized"
    /\ q_in.made_for = "quint8"
    /\ q_in.kind = "qint8"
    /\ q_arr.ndarray
    /\ ~q_back.ok

(***************************************************************************)
(* array_method.py: tensors and the primitives the operators invoke        *)
(***************************************************************************)
\* a tensor handle: dtype, shape and (row-major) elements
Tensor(dtype, shape, data) ==
    [ok |-> TRUE, raised |-> "", dtype |-> dtype, shape |-> shape, data |-> data]
\* a call that raised instead of returning
Raise(error) ==
    [ok |-> FALSE, raised |-> error, dtype |-> "", shape |-> <<>>, data |-> <<>>]
\* a rank-1 tensor
Vec(dtype, data) == Tensor(dtype, <<Len(data)>>, data)

\* one entry of the trace: a primitive applied to operands
Invocation(prim, mode, args) == [prim |-> prim, mode |-> mode, args |-> args]
\* what a call did: its result and the invocations it made, in order
Did(out, trace) == [out |-> out, trace |-> trace]

BoolOf(b) == IF b THEN 1 ELSE 0

\* one element of an elementwise primitive
ElemwiseAt(mode, x, y) ==
    CASE mode = "LT" -> BoolOf(x < y)
      [] mode = "LEQ" -> BoolOf(x <= y)
      [] mode = "EQ" -> BoolOf(x = y)
      [] mode = "NOT" -> BoolOf(x = 0)
      [] mode = "AND" -> BoolOf(x # 0 /\ y # 0)
      [] mode = "OR" -> BoolOf(x # 0 \/ y # 0)
      [] mode = "XOR" -> BoolOf((x # 0) # (y # 0))
      [] mode = "ADD" -> x + y
      [] mode = "SUB" -> x - y
      [] mode = "MUL" -> x * y
      [] mode \in {"TRUE_DIV", "FLOOR_DIV"} -> x \div y
      [] mode = "MOD" -> x % y
      [] mode = "POW" -> IF y = 0 THEN 1 ELSE x ^ y
      [] mode = "SHL" -> x * Pow2(y)
      [] mode = "SHR" -> x \div Pow2(y)

\* the modes whose second operand must not be zero where elements are integers
Dividing == {"TRUE_DIV", "FLOOR_DIV", "MOD"}

\* builtin.Elemwise(mode) applied to rank-1 operands: elementwise, an operand
\* of length 1 broadcast; operands that do not broadcast, and a zero divisor,
\* are a computation error
Elemwise(mode, args) ==
    LET a == args[1]
        b == args[Len(args)]
        n == Max(Len(a.data), Len(b.data))
        At(t, i) == IF Len(t.data) = 1 THEN t.data[1] ELSE t.data[i]
    IN  IF Len(a.data) # n /\ Len(a.data) # 1 THEN Raise("ComputationError")
        ELSE IF Len(b.data) # n /\ Len(b.data) # 1 THEN Raise("ComputationError")
        ELSE IF mode \in Dividing /\ \E i \in 1..n : At(b, i) = 0
        THEN Raise("ComputationError")
        ELSE Vec(a.dtype, [i \in 1..n |-> ElemwiseAt(mode, At(a, i), At(b, i))])

\* apply(op, *args) for an elementwise op
_elwise_apply(args, mode) ==
    Did(Elemwise(mode, args), <<Invocation("Elemwise", mode, args)>>)

_elwise(args, mode) == _elwise_apply(args, mode)

\* Tensor.astype(dtype) on the result of a call; a call that raised stays raised
astype(did, dtype) ==
    IF ~did.out.ok THEN did
    ELSE Did(Tensor(dtype, did.out.shape,
                    [i \in 1..Len(did.out.data) |->
                        IF dtype = "bool" THEN BoolOf(did.out.data[i] # 0)
                        ELSE did.out.data[i]]),
             Append(did.trace, Invocation("astype", dtype, <<did.out>>)))

\* __gt__ comparing in the order written
__gt__Unswapped(self, value) == astype(_elwise(<<self, value>>, "LT"), "bool")

__lt__(self, value) == astype(_elwise(<<self, value>>, "LT"), "bool")
__le__(self, value) == astype(_elwise(<<self, value>>, "LEQ"), "bool")
__gt__(self, value) == astype(_elwise(<<value, self>>, "LT"), "bool")
__ge__(self, value) == astype(_elwise(<<value, self>>, "LEQ"), "bool")
__eq__(self, value) == astype(_elwise(<<self, value>>, "EQ"), "bool")
__ne__(self, value) ==
    LET eq == astype(_elwise(<<self, value>>, "EQ"), "bool")
    IN  IF ~eq.out.ok THEN eq
        ELSE Did(_elwise(<<eq.out>>, "NOT").out,
                 eq.trace \o _elwise(<<eq.out>>, "NOT").trace)

Comparisons == {"<", "<=", ">", ">=", "==", "!="}
Compared(op, self, value) ==
    CASE op = "<" -> __lt__(self, value)
      [] op = "<=" -> __le__(self, value)
      [] op = ">" -> __gt__(self, value)
      [] op = ">=" -> __ge__(self, value)
      [] op = "==" -> __eq__(self, value)
      [] op = "!=" -> __ne__(self, value)

Dtypes == {"bool", "int32", "float32"}
ElemsOf(dtype) == IF dtype = "bool" THEN 0..1 ELSE 0..MaxElem
Vecs ==
    UNION {{Vec(dtype, data) : data \in [1..n -> ElemsOf(dtype)]} :
              dtype \in Dtypes, n \in 1..MaxVecLen}

\* self <op> value
Compare(op, value) ==
    /\ t_pc = "ready"
    /\ t_pc' = "compared"
    /\ t_in' = [op |-> op, value |-> value]
    /\ t_out' = Compared(op, t_self, value).out
    /\ t_trace' = t_trace \o Compared(op, t_self, value).trace
    /\ UNCHANGED t_self
    /\ UNCHANGED <<mmVars, cacheVars, quantVars>>

InitCompare ==
    /\ t_pc = "ready"
    /\ t_self \in Vecs
    /\ t_in = <<>>
    /\ t_out = Raise("")
    /\ t_trace = <<>>
    /\ MatmulIdle /\ CacheIdle /\ QuantIdle

NextCompare == \E op \in Comparisons, value \in Vecs : Compare(op, value)

SpecCompare == InitCompare /\ [][NextCompare]_vars

\* C11: a > b is the primitive invocation b < a makes and a >= b the one
\* b <= a makes, with the same result; a != b is the elementwise NOT of
\* a == b; and every comparison that returns, returns a boolean tensor.
C11_ComparisonsBySwapAndNot ==
    t_pc = "compared" =>
        LET a == t_self
            b == t_in.value
        IN  /\ t_in.op = ">" =>
                  t_trace = __lt__(b, a).trace /\ t_out = __lt__(b, a).out
            /\ t_in.op = ">=" =>
                  t_trace = __le__(b, a).trace /\ t_out = __le__(b, a).out
            /\ (t_in.op = "!=" /\ t_out.ok) =>
                  /\ __eq__(a, b).out.ok
                  /\ t_out.shape = __eq__(a, b).out.shape
                  /\ \A i \in 1..Len(t_out.data) :
                        t_out.data[i] = 1 - __eq__(a, b).out.data[i]
            /\ t_out.ok => t_out.dtype = "bool"
            /\ t_trace[1].prim = "Elemwise"
            /\ t_trace[1].mode \in {"LT", "LEQ", "EQ"}

\* [0, 1] > [1, 0] was evaluated as [1, 0] < [0, 1]
C11_Witness ==
    /\ t_pc = "compared"
    /\ t_in.op = ">"
    /\ t_self = Vec("int32", <<0, 1>>)
    /\ t_in.value = Vec("int32", <<1, 0>>)
    /\ t_out = Vec("bool", <<0, 1>>)
    /\ t_trace[1] = Invocation("Elemwise", "LT", <<t_in.value, t_self>>)

(***************************************************************************)
(* array_method.py: binary operators and their in-place forms              *)
(***************************************************************************)
\* a raise whose message names a mode
RaiseAbout(error, mode) ==
    [ok |-> FALSE, raised |-> error, about |-> mode,
     dtype |-> "", shape |-> <<>>, data |-> <<>>]
\* a Python scalar operand: a value without a dtype attribute
PyScalar(x) == Tensor("python", <<>>, <<x>>)
\* the NotImplemented singleton
NotImplemented == Tensor("NotImplemented", <<>>, <<>>)
\* a call that returned one of the handles themselves, or None
Returned(handle) ==
    [ok |-> TRUE, raised |-> "", dtype |-> "handle", shape |-> <<>>, data |-> <<handle>>]

_binary_elwise(mode, rev, self, value) ==
    IF ~rev THEN _elwise(<<self, value>>, mode) ELSE _elwise(<<value, self>>, mode)

_logical_unary_elwise(mode, self) ==
    IF self.dtype # "bool" THEN Did(RaiseAbout("TypeError", mode), <<>>)
    ELSE _elwise(<<self>>, mode)

\* _logical_binary_elwise that tests the receiver only
_logical_binary_elwise_SelfOnly(mode, rev, self, value) ==
    IF self.dtype # "bool" THEN Did(RaiseAbout("TypeError", mode), <<>>)
    ELSE IF ~rev THEN _elwise(<<self, value>>, mode)
    ELSE _elwise(<<value, self>>, mode)

_logical_binary_elwise(mode, rev, self, value) ==
    IF self.dtype # "bool" THEN Did(RaiseAbout("TypeError", mode), <<>>)
    ELSE IF value.dtype = "python" THEN Did(Raise("AttributeError"), <<>>)
    ELSE IF value.dtype # "bool" THEN Did(RaiseAbout("TypeError", mode), <<>>)
    ELSE IF ~rev THEN _elwise(<<self, value>>, mode)
    ELSE _elwise(<<value, self>>, mode)

\* the dot-product primitive on rank-1 tensors
DotVec(a, b) ==
    LET RECURSIVE Sum(_)
        Sum(i) == IF i = 0 THEN 0 ELSE a.data[i] * b.data[i] + Sum(i - 1)
    IN  IF Len(a.data) # Len(b.data) THEN Raise("ComputationError")
        ELSE Tensor(a.dtype, <<>>, <<Sum(Len(a.data))>>)

\* __matmul__ on the tracked tensors, which are of rank at most 1
__matmul__(self, other) ==
    LET path == SelectPath(Max(Len(self.shape), 1), Max(Len(other.shape), 1), FALSE)
    IN  Did(DotVec(self, other), <<Invocation(path, "", <<self, other>>)>>)

\* the mode behind each out-of-place binary operator that has an in-place form
ModeOf ==
    [f \in {"__add__", "__sub__", "__mul__", "__truediv__", "__floordiv__", "__mod__",
            "__pow__", "__lshift__", "__rshift__", "__and__", "__or__", "__xor__"} |->
        CASE f = "__add__" -> "ADD" [] f = "__sub__" -> "SUB" [] f = "__mul__" -> "MUL"
          [] f = "__truediv__" -> "TRUE_DIV" [] f = "__floordiv__" -> "FLOOR_DIV"
          [] f = "__mod__" -> "MOD" [] f = "__pow__" -> "POW"
          [] f = "__lshift__" -> "SHL" [] f = "__rshift__" -> "SHR"
          [] f = "__and__" -> "AND" [] f = "__or__" -> "OR" [] f = "__xor__" -> "XOR"]

LogicalOps == {"__and__", "__or__", "__xor__"}
\* __add__ .. __xor__ and __matmul__: the functions _inplace wraps in the mixin
BinaryOps == DOMAIN ModeOf \cup {"__matmul__"}
\* what _inplace can wrap: those, or a function that returns NotImplemented
Wrapped == BinaryOps \cup {"NotImplemented"}

OutOfPlace(f, self, value) ==
    IF f = "NotImplemented" THEN Did(NotImplemented, <<>>)
    ELSE IF f = "__matmul__" THEN __matmul__(self, value)
    ELSE IF f \in LogicalOps THEN _logical_binary_elwise(ModeOf[f], FALSE, self, value)
    ELSE _binary_elwise(ModeOf[f], FALSE, self, value)

\* _inplace that returns the receiver untouched on NotImplemented
_inplace_SilentNoOp(did) ==
    IF ~did.out.ok THEN did
    ELSE IF did.out = NotImplemented THEN Did(Returned("self"), did.trace)
    ELSE Did(Returned("self"),
             Append(did.trace, Invocation("_reset", "self", <<did.out>>)))

\* _inplace(f)(self, value), given what f(self, value) did
_inplace(did) ==
    IF ~did.out.ok THEN did
    ELSE IF did.out = NotImplemented
    THEN Did(Raise("NotImplementedError"), did.trace)
    ELSE Did(Returned("self"),
             Append(did.trace, Invocation("_reset", "self", <<did.out>>)))

\* the handles of the scenario: the receiver and one other value
Handles == {"self", "other"}
Heap == [self |-> t_self, other |-> t_in.other]

\* the bindings after the _reset calls of a trace
RECURSIVE After(_, _)
After(heap, trace) ==
    IF trace = <<>> THEN heap
    ELSE After(IF Head(trace).prim = "_reset"
               THEN [heap EXCEPT ![Head(trace).mode] = Head(trace).args[1]]
               ELSE heap,
               Tail(trace))

Resets(trace) == {i \in 1..Len(trace) : trace[i].prim = "_reset"}

\* a method of the receiver ran: its result, trace and rebindings take effect
Ran(method, value, index, did) ==
    /\ t_out' = did.out
    /\ t_trace' = did.trace
    /\ t_self' = After(Heap, did.trace).self
    /\ t_in' = [method |-> method, value |-> value, index |-> index,
                other |-> After(Heap, did.trace).other, before |-> Heap]
    /\ UNCHANGED <<mmVars, cacheVars, quantVars>>

\* self <op>= value, where value is one of the handles
InplaceOp(f, value) ==
    /\ t_pc = "ready"
    /\ t_pc' = "inplaced"
    /\ Ran(f, value, "", _inplace(OutOfPlace(f, t_self, Heap[value])))

\* self & value, value & self (reflected), and likewise | and ^
LogicalOp(f, rev, value) ==
    /\ t_pc = "ready"
    /\ t_pc' = "logical"
    /\ Ran(f, value, "", _logical_binary_elwise(ModeOf[f], rev, t_self, Heap[value]))

\* ~self
Invert ==
    /\ t_pc = "ready"
    /\ t_pc' = "logical"
    /\ Ran("__invert__", "self", "", _logical_unary_elwise("NOT", t_self))

\* an index: the Ellipsis sentinel or a position
Ellipsis == [kind |-> "Ellipsis", i |-> 0]
IndexAt(i) == [kind |-> "int", i |-> i]
Indices == {Ellipsis} \cup {IndexAt(i) : i \in 0..MaxVecLen}

\* the external set-item primitive: a new tensor, self with the element at
\* index replaced; a position outside self, or a value that is not one
\* element, is a computation error
setitem_cpp(self, index, value) ==
    IF index.i >= Len(self.data) \/ Len(value.data) # 1
    THEN Did(Raise("ComputationError"), <<Invocation("setitem", index, <<self, value>>)>>)
    ELSE Did(Vec(self.dtype, [j \in 1..Len(self.data) |->
                                 IF j = index.i + 1 THEN value.data[1] ELSE self.data[j]]),
             <<Invocation("setitem", index, <<self, value>>)>>)

\* __setitem__ that sends the Ellipsis index to the primitive as well
__setitem__AlwaysPrimitive(self, index, value) ==
    LET set == setitem_cpp(self, index, value)
    IN  IF ~set.out.ok THEN set
        ELSE Did(Returned("None"),
                 Append(set.trace, Invocation("_reset", "self", <<set.out>>)))

__setitem__(self, index, value) ==
    IF index # Ellipsis
    THEN LET set == setitem_cpp(self, index, value)
         IN  IF ~set.out.ok THEN set
             ELSE Did(Returned("None"),
                      Append(set.trace, Invocation("_reset", "self", <<set.out>>)))
    ELSE Did(Returned("None"), <<Invocation("_reset", "self", <<value>>)>>)

\* self[index] = value
Setitem(index, value) ==
    /\ t_pc = "ready"
    /\ t_pc' = "assigned"
    /\ Ran("__setitem__", value, index, __setitem__(t_self, index, Heap[value]))

Operands == Vecs \cup {PyScalar(1)}

InitRebind ==
    /\ t_pc = "ready"
    /\ t_self \in Vecs
    /\ \E other \in Operands :
          t_in = [method |-> "", value |-> "", index |-> "", other |-> other,
                  before |-> [self |-> t_self, other |-> other]]
    /\ t_out = Raise("")
    /\ t_trace = <<>>
    /\ MatmulIdle /\ CacheIdle /\ QuantIdle

NextRebind ==
    \/ \E f \in Wrapped, value \in Handles : InplaceOp(f, value)
    \/ \E f \in LogicalOps, rev \in BOOLEAN, value \in Handles : LogicalOp(f, rev, value)
    \/ Invert
    \/ \E index \in Indices, value \in Handles : Setitem(index, value)

SpecRebind == InitRebind /\ [][NextRebind]_vars

\* C12: an in-place operator computes the out-of-place result first; when
\* that signals not-implemented or fails, the wrapper raises
\* NotImplementedError or passes the failure on and the receiver keeps its
\* value, with no _reset; otherwise the receiver is rebound exactly once, to
\* that result, the receiver itself is returned, and no other value changes.
C12_InplaceRebindsOnce ==
    t_pc = "inplaced" =>
        LET pre == t_in.before
            f == OutOfPlace(t_in.method, pre.self, pre[t_in.value])
        IN  /\ ~f.out.ok =>
                  /\ t_out = f.out
                  /\ t_self = pre.self
                  /\ Resets(t_trace) = {}
            /\ f.out = NotImplemented =>
                  /\ ~t_out.ok /\ t_out.raised = "NotImplementedError"
                  /\ t_self = pre.self
                  /\ Resets(t_trace) = {}
            /\ (f.out.ok /\ f.out # NotImplemented) =>
                  /\ t_trace = Append(f.trace, Invocation("_reset", "self", <<f.out>>))
                  /\ Resets(t_trace) = {Len(t_trace)}
                  /\ t_self = f.out
                  /\ t_out = Returned("self")
            /\ t_in.other = pre.other

\* [1, 1] += [1, 0] rebound the receiver to [2, 1] and left the operand alone
C12_Witness ==
    /\ t_pc = "inplaced"
    /\ t_in.method = "__add__"
    /\ t_in.value = "other"
    /\ t_in.before.self = Vec("int32", <<1, 1>>)
    /\ t_in.other = Vec("int32", <<1, 0>>)
    /\ t_self = Vec("int32", <<2, 1>>)
    /\ t_out = Returned("self")

\* the operands of the logical operator that ran
LogicalRan ==
    \/ t_pc = "logical"
    \/ t_pc = "inplaced" /\ t_in.method \in LogicalOps
LogicalMode == IF t_in.method = "__invert__" THEN "NOT" ELSE ModeOf[t_in.method]
LogicalOperands ==
    IF t_in.method = "__invert__" THEN {t_in.before.self}
    ELSE {t_in.before.self, t_in.before[t_in.value]}

\* C16: &, |, ^, their reflected and in-place forms, and ~ invoke the
\* elementwise primitive only when every operand is boolean-typed; when the
\* receiver or the other operand has a non-boolean dtype they raise a type
\* error naming the operator, invoke nothing and do not rebind the receiver.
C16_LogicalNeedsBool ==
    LogicalRan =>
        /\ t_trace # <<>> => \A o \in LogicalOperands : o.dtype = "bool"
        /\ (\E o \in LogicalOperands : o.dtype \notin {"bool", "python"}) =>
              /\ ~t_out.ok
              /\ t_out.raised = "TypeError"
              /\ t_out.about = LogicalMode
              /\ t_trace = <<>>
              /\ t_self = t_in.before.self
              /\ t_in.other = t_in.before.other

\* a boolean receiver and an int32 operand: x &= v raised and x kept its value
C16_Witness ==
    /\ t_pc = "inplaced"
    /\ t_in.method = "__and__"
    /\ t_in.value = "other"
    /\ t_in.before.self = Vec("bool", <<1, 0>>)
    /\ t_in.other = Vec("int32", <<1, 1>>)
    /\ t_out = RaiseAbout("TypeError", "AND")
    /\ t_self = Vec("bool", <<1, 0>>)
    /\ t_trace = <<>>

\* C17: x[index] = value rebinds the receiver exactly once and changes no
\* other value: to the result of the set-item primitive on (x, index, value)
\* when index is not Ellipsis, to value itself and without the primitive
\* when it is; when the primitive fails the receiver keeps its value.
C17_SetitemRebindsOnce ==
    t_pc = "assigned" =>
        LET pre == t_in.before
            v == pre[t_in.value]
            set == setitem_cpp(pre.self, t_in.index, v)
        IN  /\ (t_in.index # Ellipsis /\ set.out.ok) =>
                  /\ t_trace = Append(set.trace,
                                      Invocation("_reset", "self", <<set.out>>))
                  /\ t_self = set.out
                  /\ t_out = Returned("None")
            /\ (t_in.index # Ellipsis /\ ~set.out.ok) =>
                  /\ t_out = set.out
                  /\ Resets(t_trace) = {}
                  /\ t_self = pre.self
            /\ t_in.index = Ellipsis =>
                  /\ t_trace = <<Invocation("_reset", "self", <<v>>)>>
                  /\ t_self = v
                  /\ t_out = Returned("None")
            /\ Cardinality(Resets(t_trace)) <= 1
            /\ t_in.other = pre.other

\* x[...] = v rebound x to v without the set-item primitive
C17_Witness ==
    /\ t_pc = "assigned"
    /\ t_in.index = Ellipsis
    /\ t_in.value = "other"
    /\ t_in.before.self = Vec("int32", <<0, 0>>)
    /\ t_in.other = Vec("float32", <<1>>)
    /\ t_self = Vec("float32", <<1>>)
    /\ Len(t_trace) = 1

(***************************************************************************)
(* array_method.py: reductions                                             *)
(***************************************************************************)
\* a tensor of which only dtype and shape are tracked
Shaped(dtype, shape) == Tensor(dtype, shape, <<>>)

\* x placed into a sequence sorted in descending order
RECURSIVE Insert(_, _, _)
Insert(x, sorted, reverse) ==
    IF sorted = <<>> THEN <<x>>
    ELSE IF (reverse /\ x >= Head(sorted)) \/ (~reverse /\ x <= Head(sorted))
    THEN <<x>> \o sorted
    ELSE <<Head(sorted)>> \o Insert(x, Tail(sorted), reverse)

RECURSIVE Sorted(_, _)
Sorted(seq, reverse) ==
    IF seq = <<>> THEN <<>> ELSE Insert(Head(seq), Sorted(Tail(seq), reverse), reverse)

\* utils._normalize_axis on a collection: negative axes count from the end,
\* an axis outside the rank or named twice is refused, the rest is sorted
_normalize_axis(ndim, axis, reverse) ==
    LET convert == [i \in 1..Len(axis) |-> IF axis[i] < 0 THEN ndim + axis[i] ELSE axis[i]]
    IN  IF \E i \in 1..Len(axis) : convert[i] < 0 \/ convert[i] >= ndim
        THEN [ok |-> FALSE, axis |-> <<>>]
        ELSE IF \E i, j \in 1..Len(axis) : i # j /\ convert[i] = convert[j]
        THEN [ok |-> FALSE, axis |-> <<>>]
        ELSE [ok |-> TRUE, axis |-> Sorted(convert, reverse)]

\* the primitive's descriptor: builtin.Reduce(mode=, axis=, keepdim=)
ReduceOp(mode, axis, keepdim) == [mode |-> mode, axis |-> axis, keepdim |-> keepdim]
AllAxes == [kind |-> "None", i |-> 0, seq |-> <<>>]
OneAxis(i) == [kind |-> "int", i |-> i, seq |-> <<>>]
AxisList(seq) == [kind |-> "list", i |-> 0, seq |-> seq]

\* builtin.Reduce applied: without an axis it reduces to a scalar; with one
\* it accepts a negative axis, fails outside the rank, and removes the axis
\* or, with keepdim, leaves it with extent 1
Reduce(op, data) ==
    LET r == Len(data.shape)
        a == IF op.axis.i < 0 THEN r + op.axis.i ELSE op.axis.i
    IN  IF op.axis.kind = "None" THEN Shaped(data.dtype, <<>>)
        ELSE IF a < 0 \/ a >= r THEN Raise("ComputationError")
        ELSE IF op.keepdim
        THEN Shaped(data.dtype, [i \in 1..r |-> IF i = a + 1 THEN 1 ELSE data.shape[i]])
        ELSE Shaped(data.dtype,
                    [i \in 1..(r - 1) |->
                        IF i < a + 1 THEN data.shape[i] ELSE data.shape[i + 1]])

\* the order _reduce would walk the axes in if it sorted them ascending
ReduceAxes_Ascending(ndim, axis) == _normalize_axis(ndim, axis, FALSE)

\* _normalize_axis(self.ndim, axis, reverse=True)
ReduceAxes(ndim, axis) == _normalize_axis(ndim, axis, TRUE)

ReduceModes == {"sum", "product", "min", "max", "mean"}

\* self.sum(axis, keepdims) and the like: the call up to its first apply
ReduceCall(mode, axis, keepdims) ==
    /\ t_pc = "ready"
    /\ t_in' = [mode |-> mode, axis |-> axis, keepdims |-> keepdims]
    /\ t_trace' = <<>>
    /\ CASE axis.kind = "None" ->
              IF keepdims
              THEN t_pc' = "reduced" /\ t_out' = Raise("AssertionError")
              ELSE t_pc' = "reducing"
                   /\ t_out' = [data |-> t_self, pending |-> <<ReduceOp(mode, axis, FALSE)>>]
         [] axis.kind = "list" ->
              IF ~ReduceAxes(Len(t_self.shape), axis.seq).ok
              THEN t_pc' = "reduced" /\ t_out' = Raise("AssertionError")
              ELSE t_pc' = "reducing"
                   /\ t_out' = [data |-> t_self,
                                pending |->
                                    [i \in 1..Len(axis.seq) |->
                                        ReduceOp(mode,
                                                 OneAxis(ReduceAxes(Len(t_self.shape),
                                                                    axis.seq).axis[i]),
                                                 keepdims)]]
         [] axis.kind = "int" ->
              t_pc' = "reducing"
              /\ t_out' = [data |-> t_self, pending |-> <<ReduceOp(mode, axis, keepdims)>>]
    /\ UNCHANGED t_self
    /\ UNCHANGED <<mmVars, cacheVars, quantVars>>

\* (data,) = apply(op, data) for the next axis
ReduceStep ==
    /\ t_pc = "reducing"
    /\ t_out.pending # <<>>
    /\ LET op == Head(t_out.pending)
           result == Reduce(op, t_out.data)
       IN  /\ t_trace' = Append(t_trace, Invocation("Reduce", op, <<t_out.data>>))
           /\ IF result.ok
              THEN t_pc' = "reducing"
                   /\ t_out' = [data |-> result, pending |-> Tail(t_out.pending)]
              ELSE t_pc' = "reduced" /\ t_out' = result
    /\ UNCHANGED <<t_self, t_in>>
    /\ UNCHANGED <<mmVars, cacheVars, quantVars>>

\* return result
ReduceReturn ==
    /\ t_pc = "reducing"
    /\ t_out.pending = <<>>
    /\ t_pc' = "reduced"
    /\ t_out' = t_out.data
    /\ UNCHANGED <<t_self, t_in, t_trace>>
    /\ UNCHANGED <<mmVars, cacheVars, quantVars>>

\* shapes of every rank up to MaxTRank: extents 2, 3, 4, .. (all different),
\* extents all 1, and extents with a 0 in front
TShapes ==
    UNION {{[i \in 1..r |-> i + 1], [i \in 1..r |-> 1], [i \in 1..r |-> i - 1]} :
              r \in 0..MaxTRank}
ShapedTensors == {Shaped("float32", shape) : shape \in TShapes}

\* the axis arguments: None, an int, or a collection of up to MaxAxes ints,
\* each from one below -rank to one above rank - 1
AxisValues == (-(MaxTRank + 1))..MaxTRank
AxisArgs ==
    {AllAxes} \cup {OneAxis(i) : i \in AxisValues}
              \cup UNION {{AxisList(seq) : seq \in [1..n -> AxisValues]} : n \in 0..MaxAxes}

InitReduce ==
    /\ t_pc = "ready"
    /\ t_self \in ShapedTensors
    /\ t_in = <<>>
    /\ t_out = Raise("")
    /\ t_trace = <<>>
    /\ MatmulIdle /\ CacheIdle /\ QuantIdle

NextReduce ==
    \/ /\ t_pc = "ready"
       /\ \E mode \in ReduceModes, axis \in AxisArgs, keepdims \in BOOLEAN :
             ReduceCall(mode, axis, keepdims)
    \/ ReduceStep
    \/ ReduceReturn

SpecReduce == InitReduce /\ [][NextReduce]_vars

\* the axis an entry of the collection names, counted from the front
Named(r, a) == IF a < 0 THEN r + a ELSE a

\* shape with the dimensions at the (0-based) positions in gone left out
RECURSIVE Without(_, _, _)
Without(shape, gone, at) ==
    IF shape = <<>> THEN <<>>
    ELSE (IF at \in gone THEN <<>> ELSE <<Head(shape)>>)
         \o Without(Tail(shape), gone, at + 1)

\* a reduction over a collection of axes with keepdims = False has returned
ReducedOverList ==
    /\ t_pc = "reduced"
    /\ t_in.axis.kind = "list"
    /\ ~t_in.keepdims
    /\ t_out.ok

\* C13: a reduction over a collection of axes with keepdims = False invokes
\* the single-axis primitive once per axis, in strictly descending order of
\* the normalized axis, each invocation removing the dimension that axis
\* names in the original shape; the result's shape is the original shape
\* without exactly the named dimensions, whatever their order and sign.
C13_ReducesAxesDescending ==
    ReducedOverList =>
        LET r == Len(t_self.shape)
            axes == t_in.axis.seq
            named == {Named(r, axes[i]) : i \in 1..Len(axes)}
        IN  /\ Len(t_trace) = Len(axes)
            /\ \A i \in 1..Len(t_trace) :
                  /\ t_trace[i].prim = "Reduce"
                  /\ t_trace[i].mode.mode = t_in.mode
                  /\ t_trace[i].mode.axis.kind = "int"
                  /\ ~t_trace[i].mode.keepdim
                  /\ t_trace[i].mode.axis.i \in named
                  \* the operand still has the named dimension where the
                  \* original shape has it, and everything in front of it
                  /\ LET a == t_trace[i].mode.axis.i
                         operand == t_trace[i].args[1].shape
                     IN  /\ a + 1 <= Len(operand)
                         /\ \A k \in 1..(a + 1) : operand[k] = t_self.shape[k]
            /\ \A i \in 1..(Len(t_trace) - 1) :
                  t_trace[i].mode.axis.i > t_trace[i + 1].mode.axis.i
            /\ {t_trace[i].mode.axis.i : i \in 1..Len(t_trace)} = named
            /\ t_out.shape = Without(t_self.shape, named, 0)

\* two dimensions of a rank-3 tensor named in ascending order, one of them
\* by a negative axis, have been reduced away
C13_Witness ==
    /\ ReducedOverList
    /\ t_self.shape = <<2, 3, 4>>
    /\ t_in.axis.seq = <<0, -1>>
    /\ t_in.mode = "mean"
    /\ Len(t_trace) = 2
    /\ t_out.shape = <<3>>

(***************************************************************************)
(* array_method.py: conversion to a Python scalar                          *)
(***************************************************************************)
\* a Python value: its class and its number
Py(type, value) == [ok |-> TRUE, raised |-> "", type |-> type, value |-> value]
PyRaise(error) == [ok |-> FALSE, raised |-> error, type |-> "", value |-> 0]

\* np.prod(shape).item(): the product of an empty tuple is the float 1.0
NpProdItem(shape) ==
    IF shape = <<>> THEN Py("float", 1) ELSE Py("int", Prod(shape))

\* self.size; a shape that is itself a tensor gives a tensor
size(self, shape_is_tuple) ==
    IF shape_is_tuple THEN NpProdItem(self.shape) ELSE Py("Tensor", Prod(self.shape))

\* the Python class numpy's item() gives an element of the dtype
ItemType(dtype) ==
    CASE dtype = "bool" -> "bool" [] dtype = "int32" -> "int" [] OTHER -> "float"

\* self.numpy().item(): only an array of one element converts
NumpyItem(self) ==
    IF Len(self.data) = 1 THEN Py(ItemType(self.dtype), self.data[1])
    ELSE PyRaise("ValueError")

\* item() taking the first element of whatever is there
item_FirstElement(self, shape_is_tuple) ==
    IF Len(self.data) >= 1 THEN Py(ItemType(self.dtype), self.data[1])
    ELSE PyRaise("IndexError")

\* self.item() without arguments
item(self, shape_is_tuple) ==
    IF size(self, shape_is_tuple).type = "int" /\ size(self, shape_is_tuple).value # 1
    THEN PyRaise("AssertionError")
    ELSE NumpyItem(self)

ScalarConversions == {"__index__", "__bool__", "__int__", "__float__", "__complex__"}

\* __index__ .. __complex__: the builtin applied to self.item()
ScalarConversion(method, self, shape_is_tuple) ==
    LET x == item(self, shape_is_tuple)
    IN  IF ~x.ok THEN x
        ELSE CASE method = "__index__" ->
                    IF x.type = "float" THEN PyRaise("AttributeError")
                    ELSE Py("int", x.value)
               [] method = "__bool__" -> Py("bool", IF x.value # 0 THEN 1 ELSE 0)
               [] method = "__int__" -> Py("int", x.value)
               [] method = "__float__" -> Py("float", x.value)
               [] method = "__complex__" -> Py("complex", x.value)

\* int(x), float(x), bool(x), operator.index(x), complex(x)
Convert(method) ==
    /\ t_pc = "ready"
    /\ t_pc' = "converted"
    /\ t_in' = [shape_is_tuple |-> t_in.shape_is_tuple, method |-> method]
    /\ t_out' = ScalarConversion(method, t_self, t_in.shape_is_tuple)
    /\ UNCHANGED <<t_self, t_trace>>
    /\ UNCHANGED <<mmVars, cacheVars, quantVars>>

\* every shape of rank 0..MaxTRank with extents 0..MaxDim
AllShapes == UNION {[1..r -> 0..MaxDim] : r \in 0..MaxTRank}

\* a tensor of the shape whose elements in row-major order are first, first + 1, ..
\* within 0..MaxElem; a bool tensor holds 0 and 1 only
Filled(dtype, shape, first) ==
    Tensor(dtype, shape,
           [i \in 1..Prod(shape) |->
               (first + i - 1) % (IF dtype = "bool" THEN 2 ELSE MaxElem + 1)])
FilledTensors ==
    {Filled(dtype, shape, first) : dtype \in Dtypes, shape \in AllShapes,
                                   first \in 0..MaxElem}

InitScalar ==
    /\ t_pc = "ready"
    /\ t_self \in FilledTensors
    /\ t_in \in {[shape_is_tuple |-> b] : b \in BOOLEAN}
    /\ t_out = PyRaise("")
    /\ t_trace = <<>>
    /\ MatmulIdle /\ CacheIdle /\ QuantIdle

NextScalar == \E method \in ScalarConversions : Convert(method)

SpecScalar == InitScalar /\ [][NextScalar]_vars

\* C14: a scalar conversion succeeds only on a tensor of exactly one
\* element; on a tensor of no element or of several, whatever its rank, it
\* fails and returns no value.  (On one element every conversion but
\* __index__ of a float element returns that element.)
C14_ScalarNeedsOneElement ==
    t_pc = "converted" =>
        /\ t_out.ok => Prod(t_self.shape) = 1
        /\ Prod(t_self.shape) # 1 => ~t_out.ok /\ t_out.raised # ""
        /\ (Prod(t_self.shape) = 1
               /\ ~(t_in.method = "__index__" /\ t_self.dtype = "float32"))
             => t_out.ok /\ t_out.value = (IF t_in.method = "__bool__"
                                           THEN (IF t_self.data[1] # 0 THEN 1 ELSE 0)
                                           ELSE t_self.data[1])

\* int() has failed on a rank-2 tensor of four elements whose size is not a
\* Python int, so that the element extraction itself refused it
C14_Witness ==
    /\ t_pc = "converted"
    /\ t_in.method = "__int__"
    /\ t_self.shape = <<2, 2>>
    /\ ~t_in.shape_is_tuple
    /\ t_out.raised = "ValueError"

(***************************************************************************)
(* array_method.py: __len__ and __iter__                                   *)
(***************************************************************************)
\* len() that takes a tensor of rank 0 for an empty one
__len__NoRankCheck(self) ==
    IF self.shape # <<>> THEN Py("int", self.shape[1]) ELSE Py("int", 0)

\* __len__: the first dimension, a TypeError for an empty shape tuple
__len__(self) ==
    IF self.shape # <<>> THEN Py("int", self.shape[1]) ELSE PyRaise("TypeError")

\* getitem_cpp(self, i) for an int i: the i-th slice along the first axis
getitem_cpp(self, i) ==
    IF self.shape = <<>> \/ i < 0 \/ i >= self.shape[1] THEN Raise("IndexError")
    ELSE LET stride == Prod(Tail(self.shape))
         IN  Tensor(self.dtype, Tail(self.shape),
                    [k \in 1..stride |-> self.data[i * stride + k]])

__getitem__(self, index) == getitem_cpp(self, index)

\* the generator __iter__ returns: nothing of its body has run yet
\* (round counts the generators made; prior keeps the length the one before
\* had read)
NewGenerator(round, prior) ==
    [state |-> "created", round |-> round, prior |-> prior, n |-> 0, i |-> 0,
     seen |-> Raise("")]
NoGenerator ==
    [state |-> "none", round |-> 0, prior |-> 0, n |-> 0, i |-> 0, seen |-> Raise("")]

\* what a call returned: the operation, the tensor it read, its result
Answer(op, of, result) == [op |-> op, of |-> of, result |-> result]

\* len(self)
CallLen ==
    /\ t_pc = "sequence"
    /\ t_out' = Answer("len", t_self, __len__(t_self))
    /\ UNCHANGED <<t_pc, t_self, t_in, t_trace>>
    /\ UNCHANGED <<mmVars, cacheVars, quantVars>>

\* iter(self): a new generator; the one before is dropped
CallIter ==
    /\ t_pc = "sequence"
    /\ t_in.round < MaxIters
    /\ t_in' = NewGenerator(t_in.round + 1, t_in.n)
    /\ t_trace' = <<>>
    /\ t_out' = Answer("iter", t_self, Py("generator", t_in.round + 1))
    /\ UNCHANGED <<t_pc, t_self>>
    /\ UNCHANGED <<mmVars, cacheVars, quantVars>>

\* the generator runs to its next yield with n already read, or returns
Resume(g) ==
    IF g.i < g.n
    THEN LET slice == __getitem__(t_self, g.i)
         IN  IF slice.ok
             THEN /\ t_in' = [g EXCEPT !.state = "running", !.i = g.i + 1]
                  /\ t_trace' = Append(t_trace, [index |-> g.i, from |-> t_self,
                                                 item |-> slice])
                  /\ t_out' = Answer("next", t_self, slice)
             ELSE /\ t_in' = [g EXCEPT !.state = "failed"]
                  /\ t_out' = Answer("next", t_self, PyRaise(slice.raised))
                  /\ UNCHANGED t_trace
    ELSE /\ t_in' = [g EXCEPT !.state = "done"]
         /\ t_out' = Answer("next", t_self, PyRaise("StopIteration"))
         /\ UNCHANGED t_trace

\* next(generator): the first one evaluates range(len(self))
CallNext ==
    /\ t_pc = "sequence"
    /\ t_in.state \in {"created", "running"}
    /\ IF t_in.state = "created"
       THEN IF __len__(t_self).ok
            THEN Resume([t_in EXCEPT !.n = __len__(t_self).value, !.seen = t_self])
            ELSE /\ t_in' = [t_in EXCEPT !.state = "failed", !.seen = t_self]
                 /\ t_out' = Answer("next", t_self, __len__(t_self))
                 /\ UNCHANGED t_trace
       ELSE Resume(t_in)
    /\ UNCHANGED <<t_pc, t_self>>
    /\ UNCHANGED <<mmVars, cacheVars, quantVars>>

SequenceTensors == {Filled("int32", shape, 0) : shape \in TShapes}

\* self._reset(other): the tensor is rebound between two calls
Rebound(other) ==
    /\ t_pc = "sequence"
    /\ other # t_self
    /\ t_self' = other
    /\ UNCHANGED <<t_pc, t_in, t_out, t_trace>>
    /\ UNCHANGED <<mmVars, cacheVars, quantVars>>

InitIter ==
    /\ t_pc = "sequence"
    /\ t_self \in SequenceTensors
    /\ t_in = NoGenerator
    /\ t_out = Answer("", Raise(""), PyRaise(""))
    /\ t_trace = <<>>
    /\ MatmulIdle /\ CacheIdle /\ QuantIdle

NextIter ==
    \/ CallLen
    \/ CallIter
    \/ CallNext
    \/ \E other \in SequenceTensors : Rebound(other)

SpecIter == InitIter /\ [][NextIter]_vars

\* every item yielded so far was sliced from the tensor whose length was read
Unrebound == \A k \in 1..Len(t_trace) : t_trace[k].from = t_in.seen

\* C15: len() of a tensor of rank >= 1 is its first dimension n; an
\* iteration yields self[0], self[1], .., self[n-1] in this order and then
\* stops; a new iteration reads the shape the tensor has then and starts at
\* index 0 again; len() and iteration of a rank-0 tensor raise TypeError.
C15_LenAndIteration ==
    /\ t_out.op = "len" =>
          IF t_out.of.shape # <<>>
          THEN t_out.result = Py("int", t_out.of.shape[1])
          ELSE t_out.result = PyRaise("TypeError")
    /\ t_in.state = "created" => t_trace = <<>> /\ t_in.i = 0
    /\ t_in.state \in {"running", "done"} =>
          /\ t_in.seen.shape # <<>>
          /\ t_in.n = t_in.seen.shape[1]
          /\ Len(t_trace) = t_in.i /\ t_in.i <= t_in.n
          /\ Len(t_trace) >= 1 => t_trace[1].from = t_in.seen
          /\ \A k \in 1..Len(t_trace) :
                /\ t_trace[k].index = k - 1
                /\ t_trace[k].item = getitem_cpp(t_trace[k].from, k - 1)
                /\ t_trace[k].item.shape = Tail(t_trace[k].from.shape)
    /\ t_in.state = "done" =>
          /\ Len(t_trace) = t_in.n
          /\ t_out.op = "next" => t_out.result = PyRaise("StopIteration")
    /\ t_in.state = "failed" =>
          /\ t_in.seen.shape = <<>> => t_trace = <<>>
          /\ t_out.op = "next" =>
                IF t_in.seen.shape = <<>>
                THEN t_out = Answer("next", t_in.seen, PyRaise("TypeError"))
                ELSE t_out.of # t_in.seen /\ t_out.result = PyRaise("IndexError")

\* a second iteration, begun after the tensor was rebound from one of first
\* dimension 1 to one of shape (2, 3, 4), has yielded its two slices and
\* stopped
C15_Witness ==
    /\ t_in.state = "done"
    /\ t_in.round = 2
    /\ t_in.prior = 1
    /\ t_in.seen.shape = <<2, 3, 4>>
    /\ Unrebound
    /\ Len(t_trace) = 2
    /\ t_trace[2].item.data = [k \in 1..12 |-> (12 + k - 1) % (MaxElem + 1)]

(***************************************************************************)
(* Rank-1 promotion and the axis removed afterwards                        *)
(***************************************************************************)
\* the steps of the program _matmul has run on its operands
StepsRun ==
    IF mm_out.path = "plain"
    THEN extentedMatrixMulOpSteps(mm_in.shape1, mm_in.shape2,
                                  mm_in.transpose_a, mm_in.transpose_b)
    ELSE extentedBatchedMatrixMulOpSteps(mm_in.shape1, mm_in.shape2,
                                         mm_in.transpose_a, mm_in.transpose_b)

\* _matmul has run a rank-normalization program that promoted an operand
\* and whose matrix product was computed
PromotedAndMultiplied ==
    /\ mm_pc = "done"
    /\ mm_out.path \in {"plain", "batched"}
    /\ StepsRun.remove_row \/ StepsRun.remove_col
    /\ StepsRun.promoted.ok

\* the axis the program removes from its result
RemovedAxis ==
    IF StepsRun.remove_row THEN StepsRun.maxdim - 2 ELSE StepsRun.maxdim - 1

\* C18: in every rank-normalization program _matmul reaches at most one of
\* the two rank-1 promotions is applied, and the axis removed afterwards
\* (maxdim - 2 for a promoted first operand, maxdim - 1 for a promoted
\* second one) is a valid axis of the result and is the unit axis the
\* promotion introduced: an axis of extent 1 at the place of the promoted
\* operand's row or column, so that its removal succeeds.
C18_AsStated ==
    /\ (mm_pc = "done" /\ mm_out.path \in {"plain", "batched"}) =>
          ~(StepsRun.remove_row /\ StepsRun.remove_col)
    /\ PromotedAndMultiplied =>
          /\ RemovedAxis >= 0
          /\ RemovedAxis < Len(StepsRun.promoted.shape)
          /\ StepsRun.promoted.shape[RemovedAxis + 1] = 1
          /\ mm_out.result.ok

=============================================================================
